---- MODULE Spec2Model ----
(***************************************************************************)
(* PEDSA: the two-layer graph engine (main.rs, AdvancedEngine) and the SoA *)
(* binary storage engine (storage.rs, StorageEngine) as state machines.    *)
(*                                                                         *)
(* Numbers.  Weights and decay rates are f32 in the source.  The model     *)
(* draws them from multiples of 1/8 (and NaN): such values, and their      *)
(* products with integers below 2^16, are exact in f32, so the integer     *)
(* arithmetic below is the arithmetic of the source.  A weight is the      *)
(* record [nan, num] standing for num/WDen; the tenths 0.8 and 0.9 of the  *)
(* typed-edge scenario are quantized to the u16 the source gives them.     *)
(* The scores of retrieve are fixed-point numbers of four decimals.        *)
(*                                                                         *)
(* Strings.  Keywords keep their case; to_lowercase is the table Lower.    *)
(***************************************************************************)
EXTENDS Integers, Sequences, FiniteSets, TLC

\* ------------------------------------------------------------------ bounds
\* Number of engine operations explored after construction.
MaxOps == 3

\* Operations applied in one run of the specification of all engine operations.
MaxEngineOps == 2

\* Rows of the generated dataset the store is opened on, and rows inserted
\* after that.
InitNodes == 3
MaxInserts == 2

\* 8-byte words of one chaos vector (VECTOR_DIM f16 values are 128 words).
VectorWords == 1

\* ---------------------------------------------------------------- numbers
WDen == 40
U16Max == 65535

\* The f32 n/8 and the f32 n/10.
W(n) == [nan |-> FALSE, num |-> 5 * n]
Tenths(n) == [nan |-> FALSE, num |-> 4 * n]
NaN == [nan |-> TRUE, num |-> 0]

Min(a, b) == IF a < b THEN a ELSE b
Max(a, b) == IF a > b THEN a ELSE b

\* Rust `x as u16` for the float num/den: truncation toward zero, saturating
\* at 0 and 65535 (NaN is handled by the callers: NaN as u16 = 0).
CastU16(num, den) ==
  IF num <= 0 THEN 0 ELSE Min(U16Max, num \div den)

\* f32::clamp(0.0, 1.0): NaN stays NaN.
Clamp01(w) ==
  IF w.nan THEN w ELSE [nan |-> FALSE, num |-> Max(0, Min(WDen, w.num))]

\* (weight * 65535.0) as u16
MulCastU16(w) ==
  IF w.nan THEN 0 ELSE CastU16(w.num * U16Max, WDen)

\* u16::saturating_add
SaturatingAdd(a, b) == Min(U16Max, a + b)

\* ---------------------------------------------------------------- strings
\* str::to_lowercase on the model's vocabulary.
Lower(s) ==
  CASE s = "Pero" -> "pero"
    [] s = "The" -> "the"
    [] s = "Equality" -> "equality"
    [] s = "UPSERT" -> "upsert"
    [] s = "Replace" -> "replace"
    [] s = "SourceFeat" -> "sourcefeat"
    [] s = "TargetNormal" -> "targetnormal"
    [] s = "TargetEqual" -> "targetequal"
    [] s = "TargetInhibit" -> "targetinhibit"
    [] OTHER -> s

\* A sample of the stopword list of add_feature / get_or_create_feature.
Stopwords == {"the", "a", "的"}

\* The sentinel get_or_create_feature returns for a stopword.
StopId == -1

\* (XxHash64(seed 0) of the lowercased word as i64).abs(): a fixed map from
\* words to positive ids, tabulated for the model's vocabulary.
FeatureHashId(word_lower) ==
  CASE word_lower = "pero" -> 101
    [] word_lower = "blue" -> 102
    [] word_lower = "red" -> 103
    [] word_lower = "sourcefeat" -> 104
    [] word_lower = "targetnormal" -> 105
    [] word_lower = "targetequal" -> 106
    [] word_lower = "targetinhibit" -> 107
    [] OTHER -> 199

\* Option<T>: None is the empty sequence, Some(x) the one-element sequence.
None == <<>>
Some(x) == <<x>>

\* ------------------------------------------------------------------ state
VARIABLES
  nodes,             \* AdvancedEngine.nodes: id -> Node
  feature_keywords,  \* AdvancedEngine.feature_keywords: Vec<String>
  keyword_to_node,   \* AdvancedEngine.keyword_to_node: keyword -> id
  graph,             \* AdvancedEngine.graph (memory): id -> Vec<GraphEdge>
  ontology_graph,    \* AdvancedEngine.ontology_graph: id -> Vec<GraphEdge>
  chaos_store,       \* AdvancedEngine.chaos_store: rows of (id, fingerprint, vector)
  ac_matcher,        \* AdvancedEngine.ac_matcher: Option of the compiled keywords
  in_degrees,        \* AdvancedEngine.in_degrees: id -> u32
  temporal_index,    \* AdvancedEngine.temporal_index: u16 -> Vec<i64>
  affective_index,   \* AdvancedEngine.affective_index: u8 -> Vec<i64>
  embedding_model,   \* AdvancedEngine.embedding_model: Option of the model
  files,             \* the file system: path -> content
  store,             \* the StorageEngine, None before one is opened
  pc,                \* where persist stands, or "crashed"
  originals,         \* the index and payload files when persist started
  steps,             \* operations applied so far
  last               \* the last operation: its name, arguments and result

engine_vars == <<nodes, feature_keywords, keyword_to_node, graph, ontology_graph>>
index_vars ==
  <<chaos_store, ac_matcher, in_degrees, temporal_index, affective_index,
    embedding_model>>
store_vars == <<files, store, pc, originals>>
vars == <<engine_vars, index_vars, store_vars, steps, last>>

\* NodeType
Feature == "Feature"
Event == "Event"

\* Edge types (SimHash::EDGE_*).
EDGE_REPRESENTATION == 0
EDGE_EQUALITY == 1
EDGE_INHIBITION == 255

GraphEdge(tgt, strength, ty) ==
  [target_node_id |-> tgt, connection_strength |-> strength, edge_type |-> ty]

\* The engine as one value, for the operations that call one another.
Eng ==
  [nodes |-> nodes, feature_keywords |-> feature_keywords,
   keyword_to_node |-> keyword_to_node, graph |-> graph,
   ontology_graph |-> ontology_graph]

\* &self, as retrieve and calculate_chaos read it.
Self ==
  [nodes |-> nodes, feature_keywords |-> feature_keywords,
   keyword_to_node |-> keyword_to_node, graph |-> graph,
   ontology_graph |-> ontology_graph, chaos_store |-> chaos_store,
   ac_matcher |-> ac_matcher, in_degrees |-> in_degrees,
   temporal_index |-> temporal_index, affective_index |-> affective_index,
   embedding_model |-> embedding_model]

\* AHashMap::insert
MapInsert(m, k, v) == [x \in DOMAIN m \cup {k} |-> IF x = k THEN v ELSE m[x]]

\* AHashMap::entry(k).or_default() for a map to Vec
EntryOrDefault(m, k) == IF k \in DOMAIN m THEN m ELSE MapInsert(m, k, <<>>)

\* edges.iter().position(|e| e.target_node_id == tgt): first index, 0 if none
FindEdge(edges, tgt) ==
  IF \E i \in 1..Len(edges) : edges[i].target_node_id = tgt
  THEN CHOOSE i \in 1..Len(edges) :
         /\ edges[i].target_node_id = tgt
         /\ \A j \in 1..(i - 1) : edges[j].target_node_id # tgt
  ELSE 0


\* SimHash::compute_text_hash_32 of the model's keywords and summaries: the set
\* of the bits that are 1.
SemanticHash(text) ==
  CASE text = "pero" -> {0, 3, 10, 11, 12, 15, 17, 21, 22, 26, 29, 30, 31}
    [] text = "blue" -> {2, 4, 5, 6, 7, 8, 10, 11, 12, 14, 16, 17, 18, 22, 24, 29, 31}
    [] text = "red" -> {5, 9, 11, 14, 26, 29, 30}
    [] text = "the" -> {4, 5, 8, 10, 12, 15, 17, 22, 23}
    [] text = "rust" -> {1, 4, 5, 7, 8, 10, 11, 12, 14, 15, 17, 18, 21, 23, 25, 26, 29}
    [] text = "sourcefeat" -> {4, 5, 7, 8, 10, 11, 12, 14, 15, 17, 22, 23, 29, 30}
    [] text = "targetnormal" -> {7, 10, 11, 12, 14, 17, 19, 22, 25, 26, 29, 30}
    [] text = "targetequal" -> {4, 7, 8, 10, 11, 12, 14, 17, 19, 22, 29, 30}
    [] text = "targetinhibit" -> {4, 8, 10, 11, 12, 14, 18, 19, 25, 29}
    [] text = "kickoff" -> {0, 2, 10, 11, 13, 15, 19, 23, 28, 30}
    [] text = "1970Y0M0D kickoff" -> {2, 5, 7, 9, 11, 12, 13, 14, 19, 21, 22, 23, 28, 29, 30}
    [] text = "2020Y1M31D happy" -> {2, 5, 9, 11, 12, 13, 15, 16, 22, 26, 30}
    [] text = "2027Y9M29D sad happy" -> {2, 6, 7, 8, 9, 12, 13, 16, 17, 20, 22, 26, 27, 28, 30}
    [] text = "Event Normal Content" -> {1, 2, 4, 5, 8, 10, 11, 12, 19, 22, 25, 26, 28, 29, 30}
    [] text = "Event Equal Content" -> {1, 4, 5, 7, 8, 10, 11, 12, 16, 17, 19, 22, 24, 25, 29}
    [] text = "Event Inhibit Content" -> {1, 4, 5, 8, 10, 11, 12, 19, 22, 25, 28, 29}
    [] text = "SourceFeat" -> {4, 5, 7, 8, 10, 11, 12, 14, 15, 17, 22, 23, 29, 30}
    [] text = "2024Y1M4D rust" -> {2, 5, 7, 10, 11, 15, 16, 24, 26, 28, 29}
    [] text = "2024Y1M2D meeting" -> {0, 5, 6, 7, 10, 11, 13, 15, 16, 18, 20, 23, 24, 26, 28, 30}
    [] text = "2025Y1M1D python" -> {0, 2, 5, 7, 10, 11, 12, 13, 14, 15, 17, 20, 23, 26, 28, 30, 31}
    [] text = "Rust language" -> {1, 3, 4, 7, 10, 13, 14, 23, 25}

FeatureFingerprint(text) ==
  [semantic |-> SemanticHash(text), temporal |-> 0, affective |-> 0, type |-> 0]

\* ------------------------------------------------------------ add_feature
AddFeatureWrongNoFilter(e, id, keyword) ==
  LET keyword_lower == Lower(keyword)
      node == [id |-> id, node_type |-> Feature, content |-> keyword_lower,
               fingerprint |-> FeatureFingerprint(keyword_lower),
               timestamp |-> 0, emotions |-> <<>>,
               prev_event |-> None, next_event |-> None]
  IN [e EXCEPT !.nodes = MapInsert(@, id, node),
               !.feature_keywords = Append(@, keyword_lower),
               !.keyword_to_node = MapInsert(@, keyword_lower, id)]

AddFeatureFn(e, id, keyword) ==
  LET keyword_lower == Lower(keyword) IN
  IF keyword_lower \in Stopwords THEN e
  ELSE
    LET node == [id |-> id, node_type |-> Feature, content |-> keyword_lower,
                 fingerprint |-> FeatureFingerprint(keyword_lower),
                 timestamp |-> 0, emotions |-> <<>>,
                 prev_event |-> None, next_event |-> None]
    IN [e EXCEPT !.nodes = MapInsert(@, id, node),
                 !.feature_keywords = Append(@, keyword_lower),
                 !.keyword_to_node = MapInsert(@, keyword_lower, id)]

\* -------------------------------------------------- get_or_create_feature
\* Returns the id and the engine after the call.
GetOrCreateFeature(e, word) ==
  LET word_lower == Lower(word) IN
  IF word_lower \in Stopwords THEN [id |-> StopId, e |-> e]
  ELSE IF word_lower \in DOMAIN e.keyword_to_node
       THEN [id |-> e.keyword_to_node[word_lower], e |-> e]
       ELSE [id |-> FeatureHashId(word_lower),
             e |-> AddFeatureFn(e, FeatureHashId(word_lower), word_lower)]

\* --------------------------------------------------------------- add_edge
Quantize(weight) == MulCastU16(Clamp01(weight))

AddEdgeWrongOverwrite(g, src, tgt, weight) ==
  LET quantized == Quantize(weight)
      g1 == EntryOrDefault(g, src)
      i == FindEdge(g1[src], tgt)
  IN IF i > 0
     THEN [g1 EXCEPT ![src][i].connection_strength = quantized]
     ELSE [g1 EXCEPT ![src] = Append(@, GraphEdge(tgt, quantized, 0))]

AddEdgeFn(g, src, tgt, weight) ==
  LET quantized == Quantize(weight)
      g1 == EntryOrDefault(g, src)
      i == FindEdge(g1[src], tgt)
  IN IF i > 0
     THEN IF quantized > g1[src][i].connection_strength
          THEN [g1 EXCEPT ![src][i].connection_strength = quantized]
          ELSE g1
     ELSE [g1 EXCEPT ![src] = Append(@, GraphEdge(tgt, quantized, 0))]

\* ------------------------------------------------------ maintain_ontology
RelationEdgeType(relation_type) ==
  LET r == Lower(relation_type) IN
  IF r \in {"equality", "equal"} THEN EDGE_EQUALITY
  ELSE IF r \in {"inhibition", "conflict"} THEN EDGE_INHIBITION
  ELSE EDGE_REPRESENTATION

\* old.saturating_add(strength_u16 / 2).max(strength_u16)
HebbianWrongWrapping(old, strength_u16) ==
  Max((old + strength_u16 \div 2) % (U16Max + 1), strength_u16)

Hebbian(old, strength_u16) ==
  Max(SaturatingAdd(old, strength_u16 \div 2), strength_u16)

\* One direction of maintain_ontology: reinforce the edge src -> tgt if the
\* list of src has one, push it otherwise.
UpsertEdgeWrongPush(og, src, tgt, strength_u16, edge_type) ==
  LET g1 == EntryOrDefault(og, src)
  IN [g1 EXCEPT ![src] = Append(@, GraphEdge(tgt, strength_u16, edge_type))]

UpsertEdge(og, src, tgt, strength_u16, edge_type) ==
  LET g1 == EntryOrDefault(og, src)
      i == FindEdge(g1[src], tgt)
  IN IF i > 0
     THEN [g1 EXCEPT ![src][i] =
             GraphEdge(tgt, Hebbian(@.connection_strength, strength_u16), edge_type)]
     ELSE [g1 EXCEPT ![src] = Append(@, GraphEdge(tgt, strength_u16, edge_type))]

MaintainOntologyWrongReplacesList(e, source, target, relation_type, strength) ==
  LET s == GetOrCreateFeature(e, source)
      t == GetOrCreateFeature(s.e, target)
      strength_u16 == MulCastU16(strength)
      edge_type == RelationEdgeType(relation_type)
      fwd == MapInsert(t.e.ontology_graph, s.id,
                       <<GraphEdge(t.id, strength_u16, edge_type)>>)
      both == IF edge_type \in {EDGE_EQUALITY, EDGE_INHIBITION}
              THEN UpsertEdge(fwd, t.id, s.id, strength_u16, edge_type)
              ELSE fwd
  IN [t.e EXCEPT !.ontology_graph = both]

MaintainOntologyFn(e, source, target, relation_type, strength) ==
  LET s == GetOrCreateFeature(e, source)
      t == GetOrCreateFeature(s.e, target)
      src_id == s.id
      tgt_id == t.id
      strength_u16 == MulCastU16(strength)
      edge_type == RelationEdgeType(relation_type)
      fwd == UpsertEdge(t.e.ontology_graph, src_id, tgt_id, strength_u16, edge_type)
      both == IF edge_type \in {EDGE_EQUALITY, EDGE_INHIBITION}
              THEN UpsertEdge(fwd, tgt_id, src_id, strength_u16, edge_type)
              ELSE fwd
  IN [t.e EXCEPT !.ontology_graph = both]

\* ----------------------------------------- apply_global_decay_and_pruning
\* (current as f32 * decay_rate) as u16
ScaleWrongNoDecay(current, decay_rate) == current

Scale(current, decay_rate) ==
  IF decay_rate.nan THEN 0 ELSE CastU16(current * decay_rate.num, WDen)

DecayListWrongKeepEqual(edges, decay_rate, threshold) ==
  LET scaled == [i \in 1..Len(edges) |->
                   [edges[i] EXCEPT !.connection_strength = Scale(@, decay_rate)]]
      Keep(ed) == ed.connection_strength >= threshold
  IN SelectSeq(scaled, Keep)

DecayList(edges, decay_rate, threshold) ==
  LET scaled == [i \in 1..Len(edges) |->
                   [edges[i] EXCEPT !.connection_strength = Scale(@, decay_rate)]]
      Keep(ed) == ed.connection_strength > threshold
  IN SelectSeq(scaled, Keep)

RECURSIVE SumLen(_, _)
SumLen(g, keys) ==
  IF keys = {} THEN 0
  ELSE LET k == CHOOSE x \in keys : TRUE
       IN Len(g[k]) + SumLen(g, keys \ {k})

EdgeCount(g) == SumLen(g, DOMAIN g)

\* Returns the pruned graph and pruned_count.
ApplyGlobalDecayAndPruningFn(og, decay_rate, threshold) ==
  LET og1 == [k \in DOMAIN og |-> DecayList(og[k], decay_rate, threshold)]
  IN [ontology_graph |-> og1, pruned_count |-> EdgeCount(og) - EdgeCount(og1)]

\* ------------------------------------------------------ apply_arbitration
\* target_ids_to_remove: the ids of the listed targets the vocabulary knows.
TargetIdsToRemove(e, delete_targets) ==
  {e.keyword_to_node[Lower(delete_targets[i])] :
     i \in {j \in 1..Len(delete_targets) :
              Lower(delete_targets[j]) \in DOMAIN e.keyword_to_node}}

ApplyArbitrationWrongClear(e, source, delete_targets) ==
  LET source_lower == Lower(source) IN
  IF source_lower \notin DOMAIN e.keyword_to_node THEN e
  ELSE
    LET src_id == e.keyword_to_node[source_lower] IN
    IF src_id \notin DOMAIN e.ontology_graph THEN e
    ELSE IF TargetIdsToRemove(e, delete_targets) = {} THEN e
         ELSE [e EXCEPT !.ontology_graph[src_id] = <<>>]

ApplyArbitrationFn(e, source, delete_targets) ==
  LET source_lower == Lower(source) IN
  IF source_lower \notin DOMAIN e.keyword_to_node THEN e
  ELSE
    LET src_id == e.keyword_to_node[source_lower] IN
    IF src_id \notin DOMAIN e.ontology_graph THEN e
    ELSE
      LET remove == TargetIdsToRemove(e, delete_targets)
          Keep(ed) == ed.target_node_id \notin remove
      IN IF remove = {} THEN e
         ELSE [e EXCEPT !.ontology_graph[src_id] = SelectSeq(@, Keep)]

\* ---------------------------------------------------- trigger_arbitration
\* One context line "{source} -> {content} (Strength: {:.2})"; the strength
\* is kept as the u16 it is formatted from.
ContextLine(source, content, strength) ==
  [source |-> source, target |-> content, strength |-> strength]

TriggerArbitration(e, source) ==
  LET source_lower == Lower(source) IN
  IF source_lower \notin DOMAIN e.keyword_to_node THEN None
  ELSE
    LET src_id == e.keyword_to_node[source_lower]
        edges == IF src_id \in DOMAIN e.ontology_graph
                 THEN e.ontology_graph[src_id] ELSE <<>>
        Known(ed) == ed.target_node_id \in DOMAIN e.nodes
        kept == SelectSeq(edges, Known)
        context_lines ==
          [i \in 1..Len(kept) |->
             ContextLine(source, e.nodes[kept[i].target_node_id].content,
                         kept[i].connection_strength)]
    IN IF context_lines = <<>> THEN None ELSE Some(context_lines)

\* ---------------------------------------------------- execute_maintenance
\* Returns the engine after the call and the returned context.
ExecuteMaintenanceWrongDefault(e, action, source, target, relation_type, strength) ==
  LET a == Lower(action)
      e1 == MaintainOntologyFn(e, source, target, relation_type, strength)
  IN IF a = "replace"
     THEN [e |-> e1, context |-> TriggerArbitration(e1, source)]
     ELSE [e |-> e1, context |-> None]

ExecuteMaintenanceFn(e, action, source, target, relation_type, strength) ==
  LET a == Lower(action) IN
  IF a = "upsert"
  THEN [e |-> MaintainOntologyFn(e, source, target, relation_type, strength),
        context |-> None]
  ELSE IF a = "replace"
  THEN LET e1 == MaintainOntologyFn(e, source, target, relation_type, strength)
       IN [e |-> e1, context |-> TriggerArbitration(e1, source)]
  ELSE [e |-> e, context |-> None]

\* -------------------------------------------------------------- add_event
\* The date a summary carries, as extract_timestamp parses it (YYYY年M月D日; the model writes the markers 年 月 日 as Y M D),
\* None when it carries none.
ParsedDate(text) ==
  CASE text = "1970Y0M0D kickoff" -> Some([year |-> 1970, month |-> 0, day |-> 0])
    [] text = "2020Y1M31D happy" -> Some([year |-> 2020, month |-> 1, day |-> 31])
    [] text = "2027Y9M29D sad happy" -> Some([year |-> 2027, month |-> 9, day |-> 29])
    [] text = "2024Y1M4D rust" -> Some([year |-> 2024, month |-> 1, day |-> 4])
    [] text = "2024Y1M2D meeting" -> Some([year |-> 2024, month |-> 1, day |-> 2])
    [] text = "2025Y1M1D python" -> Some([year |-> 2025, month |-> 1, day |-> 1])
    [] OTHER -> None

ExtractTimestamp(text) ==
  LET default_ts == 1672531200
      d == ParsedDate(text)
  IN IF d = None THEN default_ts
     ELSE (d[1].year - 1970) * 31536000 + d[1].month * 2592000 + d[1].day * 86400

EMOTION_JOY == 1
EMOTION_SADNESS == 16

\* The emotion keywords a text contains, by its flag.
ContainsEmotion(text, flag) ==
  \/ flag = EMOTION_JOY /\ text \in {"2020Y1M31D happy", "2027Y9M29D sad happy"}
  \/ flag = EMOTION_SADNESS /\ text = "2027Y9M29D sad happy"

\* SimHash::extract_emotion: the OR of the flags of the keywords contained.
ExtractEmotion(text) ==
  (IF ContainsEmotion(text, EMOTION_JOY) THEN EMOTION_JOY ELSE 0)
    + (IF ContainsEmotion(text, EMOTION_SADNESS) THEN EMOTION_SADNESS ELSE 0)

\* SimHash::compute_temporal_hash: XxHash64(seed 12345) of the timestamp, low
\* 16 bits, evaluated on the timestamps the model's summaries and queries
\* produce.
ComputeTemporalHash(timestamp) ==
  CASE timestamp = 1582070400 -> 27832
    [] timestamp = 1642896000 -> 45918
    [] timestamp = 1672531200 -> 54694
    [] timestamp = 1674432000 -> 64921
    [] timestamp = 1703376000 -> 45826
    [] timestamp = 1704067200 -> 45657
    [] timestamp = 1705363200 -> 11461
    [] timestamp = 1705708800 -> 60606
    [] timestamp = 1705795200 -> 59313
    [] timestamp = 1705881600 -> 11109
    [] timestamp = 1705967940 -> 60646
    [] timestamp = 1705968000 -> 53973
    [] timestamp = 1735689600 -> 50684
    [] timestamp = 1737158400 -> 20688
    [] timestamp = 1767225600 -> 11835
    [] timestamp = 1823385600 -> 27832

\* SimHash::compute_multimodal: the four zones of the 64-bit fingerprint.
ComputeMultimodal(text, timestamp, emotion_val, type_val) ==
  [semantic |-> SemanticHash(text),
   temporal |-> IF timestamp > 0 THEN ComputeTemporalHash(timestamp) ELSE 0,
   affective |-> emotion_val,
   type |-> type_val]

\* emotion_val & (1 << i) != 0
BitSet(v, i) == (v \div (2 ^ i)) % 2 = 1

RECURSIVE EmotionBitsFrom(_, _)
EmotionBitsFrom(emotion_val, i) ==
  IF i > 7 THEN <<>>
  ELSE (IF BitSet(emotion_val, i) THEN <<2 ^ i>> ELSE <<>>)
         \o EmotionBitsFrom(emotion_val, i + 1)

\* index.entry(key).or_default().push(id)
PushBucket(index, key, id) ==
  MapInsert(index, key, Append(IF key \in DOMAIN index THEN index[key] ELSE <<>>, id))

\* for i in 0..8 { if emotion_hash & (1 << i) != 0 { push } }
RECURSIVE PushEmotionBuckets(_, _, _)
PushEmotionBuckets(index, bits, id) ==
  IF bits = <<>> THEN index
  ELSE PushEmotionBuckets(PushBucket(index, Head(bits), id), Tail(bits), id)

\* ChaosFingerprint::default(), as the set of the bits that are 1, and an
\* empty chaos vector.
DefaultChaosFingerprint == {}
EmptyChaosVector == <<>>

UnwrapOr(opt, default) == IF opt = None THEN default ELSE opt[1]

\* ChaosStore::add: a row per id, the first one wins.
ChaosStoreAdd(cs, id, fp, vec) ==
  IF \E i \in 1..Len(cs) : cs[i].id = id THEN cs
  ELSE Append(cs, [id |-> id, fingerprint |-> fp, vector |-> vec])

EventNode(id, summary) ==
  LET timestamp == ExtractTimestamp(summary)
      emotion_val == ExtractEmotion(summary)
  IN [id |-> id, node_type |-> Event, content |-> summary,
      fingerprint |-> ComputeMultimodal(summary, timestamp, emotion_val, 0),
      timestamp |-> timestamp, emotions |-> EmotionBitsFrom(emotion_val, 0),
      prev_event |-> None, next_event |-> None]

\* ------------------------------------------------------ compute_for_query
\* A query text is the sequence of its Unicode scalar values.
\* str::to_lowercase, on the letters A-Z (the only cased letters of the model's texts).
ToLowercase(chars) ==
  [i \in 1..Len(chars) |-> IF chars[i] \in 65..90 THEN chars[i] + 32 ELSE chars[i]]

\* str::contains
Contains(hay, pat) ==
  \E i \in 0..(Len(hay) - Len(pat)) : SubSeq(hay, i + 1, i + Len(pat)) = pat

\* u64::saturating_sub
SaturatingSub(a, b) == IF a > b THEN a - b ELSE 0

\* The if / else-if chain of relative time phrases, in the order of the code:
\* the phrases of a branch and the seconds it subtracts from ref_time.
RelativeTimeRules ==
  <<
     \* 今天 / 今日 / today / now / 此刻 / 当前
     [triggers |-> {<<20170, 22825>>,
                    <<20170, 26085>>,
                    <<116, 111, 100, 97, 121>>,
                    <<110, 111, 119>>,
                    <<27492, 21051>>,
                    <<24403, 21069>>},
      offset |-> 0],
     \* 昨天 / 昨日 / yesterday
     [triggers |-> {<<26152, 22825>>,
                    <<26152, 26085>>,
                    <<121, 101, 115, 116, 101, 114, 100, 97, 121>>},
      offset |-> 86400],
     \* 前天 / 前日
     [triggers |-> {<<21069, 22825>>,
                    <<21069, 26085>>},
      offset |-> 172800],
     \* 大前天
     [triggers |-> {<<22823, 21069, 22825>>},
      offset |-> 259200],
     \* 前几天 / 最近 / recently
     [triggers |-> {<<21069, 20960, 22825>>,
                    <<26368, 36817>>,
                    <<114, 101, 99, 101, 110, 116, 108, 121>>},
      offset |-> 259200],
     \* 上周 / last week
     [triggers |-> {<<19978, 21608>>,
                    <<108, 97, 115, 116, 32, 119, 101, 101, 107>>},
      offset |-> 604800],
     \* 上个月 / 上月 / last month
     [triggers |-> {<<19978, 20010, 26376>>,
                    <<19978, 26376>>,
                    <<108, 97, 115, 116, 32, 109, 111, 110, 116, 104>>},
      offset |-> 2592000],
     \* 去年 / last year
     [triggers |-> {<<21435, 24180>>,
                    <<108, 97, 115, 116, 32, 121, 101, 97, 114>>},
      offset |-> 31536000],
     \* 前年
     [triggers |-> {<<21069, 24180>>},
      offset |-> 63072000],
     \* 刚才 / 刚刚 / just now
     [triggers |-> {<<21018, 25165>>,
                    <<21018, 21018>>,
                    <<106, 117, 115, 116, 32, 110, 111, 119>>},
      offset |-> 60],
     \* 早上 / 上午 / morning
     [triggers |-> {<<26089, 19978>>,
                    <<19978, 21320>>,
                    <<109, 111, 114, 110, 105, 110, 103>>},
      offset |-> 0]
  >>

\* The literal years of the absolute fallback and their timestamps, in the
\* order of the code's three ifs (a later match overwrites an earlier one).
AbsoluteYears ==
  << [year |-> <<50, 48, 50, 52>>, timestamp |-> 1704067200],
     [year |-> <<50, 48, 50, 53>>, timestamp |-> 1735689600],
     [year |-> <<50, 48, 50, 54>>, timestamp |-> 1767225600] >>

\* The timestamp compute_for_query resolves the lowercased query to.
QueryTimestamp(query_lower, ref_time) ==
  LET Fires(i) == \E t \in RelativeTimeRules[i].triggers : Contains(query_lower, t)
      fired == {i \in 1..Len(RelativeTimeRules) : Fires(i)}
      first == CHOOSE i \in fired : \A j \in fired : i <= j
      relative == IF ref_time > 0 /\ fired # {}
                  THEN SaturatingSub(ref_time, RelativeTimeRules[first].offset)
                  ELSE 0
      years == {i \in 1..Len(AbsoluteYears) : Contains(query_lower, AbsoluteYears[i].year)}
      last_year == CHOOSE i \in years : \A j \in years : i >= j
  IN IF relative # 0 THEN relative
     ELSE IF years # {} THEN AbsoluteYears[last_year].timestamp
     ELSE 0

\* Entity types (SimHash::TYPE_*).
TYPE_UNKNOWN == 0
TYPE_PERSON == 1
TYPE_TECH == 2
TYPE_EVENT == 3
TYPE_OBJECT == 5

\* The keyword table of the type inference, in the order of the code.
TypeKeywords ==
  << \* pero / 用户 / 女孩
     [keywords |-> {<<112, 101, 114, 111>>, <<29992, 25143>>, <<22899, 23401>>}, type_val |-> TYPE_PERSON],
     \* rust / 代码 / 算法
     [keywords |-> {<<114, 117, 115, 116>>, <<20195, 30721>>, <<31639, 27861>>}, type_val |-> TYPE_TECH],
     \* 事情 / 发生
     [keywords |-> {<<20107, 24773>>, <<21457, 29983>>}, type_val |-> TYPE_EVENT],
     \* 蝴蝶结 / 键盘
     [keywords |-> {<<34676, 34678, 32467>>, <<38190, 30424>>}, type_val |-> TYPE_OBJECT] >>

QueryType(query_lower) ==
  LET hit == {i \in 1..Len(TypeKeywords) :
                \E k \in TypeKeywords[i].keywords : Contains(query_lower, k)}
  IN IF hit = {} THEN TYPE_UNKNOWN
     ELSE TypeKeywords[CHOOSE i \in hit : \A j \in hit : i <= j].type_val

\* A sample of the keyword table of extract_emotion: the flag and keywords of
\* joy (happy / 开心 / love) and of sadness (sad / 难过 / miss).
EmotionKeywords ==
  << [flag |-> EMOTION_JOY, keywords |-> {<<104, 97, 112, 112, 121>>, <<24320, 24515>>, <<108, 111, 118, 101>>}],
     [flag |-> EMOTION_SADNESS, keywords |-> {<<115, 97, 100>>, <<38590, 36807>>, <<109, 105, 115, 115>>}] >>

RECURSIVE EmotionFlagsFrom(_, _)
EmotionFlagsFrom(text_lower, i) ==
  IF i > Len(EmotionKeywords) THEN 0
  ELSE (IF \E k \in EmotionKeywords[i].keywords : Contains(text_lower, k)
        THEN EmotionKeywords[i].flag ELSE 0)
         + EmotionFlagsFrom(text_lower, i + 1)

\* SimHash::extract_emotion on a query text.
ExtractEmotionOf(chars) == EmotionFlagsFrom(ToLowercase(chars), 1)

\* SimHash::compute_text_hash_32 of the model's lowercased queries: the set of
\* the bits that are 1.
TextHash32(chars) ==
  CASE
    \* 大前天的会议
    chars = <<22823, 21069, 22825, 30340, 20250, 35758>> ->
      {1, 6, 10, 11, 13, 14, 15, 16, 17, 19, 23, 26, 27, 30}
    []
    \* what happened just now
    chars = <<119, 104, 97, 116, 32, 104, 97, 112, 112, 101, 110, 101, 100, 32, 106, 117, 115, 116, 32, 110, 111, 119>> ->
      {8, 9, 10, 11, 12, 17, 22, 25, 27, 28}
    []
    \* 昨天发生了什么
    chars = <<26152, 22825, 21457, 29983, 20102, 20160, 20040>> ->
      {1, 10, 11, 14, 15, 20, 29}
    []
    \* 刚才说了什么
    chars = <<21018, 25165, 35828, 20102, 20160, 20040>> ->
      {0, 1, 2, 4, 5, 6, 8, 10, 11, 12, 14, 16, 17, 20, 21, 22, 23, 25, 27, 30}
    []
    \* last week report
    chars = <<108, 97, 115, 116, 32, 119, 101, 101, 107, 32, 114, 101, 112, 111, 114, 116>> ->
      {1, 5, 7, 8, 10, 11, 12, 17, 22, 24, 25, 29, 30, 31}
    []
    \* 2025 report
    chars = <<50, 48, 50, 53, 32, 114, 101, 112, 111, 114, 116>> ->
      {1, 5, 7, 10, 11, 12, 15, 20, 21, 22, 24, 26, 27, 30, 31}
    []
    \* hello
    chars = <<104, 101, 108, 108, 111>> ->
      {2, 4, 5, 8, 10, 12, 17, 20, 22, 24, 29, 30}
    []
    \* sourcefeat
    chars = <<115, 111, 117, 114, 99, 101, 102, 101, 97, 116>> ->
      {4, 5, 7, 8, 10, 11, 12, 14, 15, 17, 22, 23, 29, 30}
    []
    \* rust 编程
    chars = <<114, 117, 115, 116, 32, 32534, 31243>> ->
      {1, 2, 4, 5, 7, 8, 10, 14, 18, 19, 20, 22, 23, 25, 27, 31}
    []
    \* happy pero
    chars = <<104, 97, 112, 112, 121, 32, 112, 101, 114, 111>> ->
      {2, 3, 9, 10, 11, 12, 17, 22, 26, 27, 30, 31}
    []
    \* sourcefeat targetnormal
    chars = <<115, 111, 117, 114, 99, 101, 102, 101, 97, 116, 32, 116, 97, 114, 103, 101, 116, 110, 111, 114, 109, 97, 108>> ->
      {7, 10, 11, 12, 14, 17, 19, 22, 29, 30}

\* SimHash::compute_for_query; the four zones of the fingerprint it returns.
ComputeForQuery(query, ref_time) ==
  LET query_lower == ToLowercase(query)
      timestamp == QueryTimestamp(query_lower, ref_time)
  IN [semantic |-> TextHash32(query_lower),
      temporal |-> IF timestamp > 0 THEN ComputeTemporalHash(timestamp) ELSE 0,
      affective |-> ExtractEmotionOf(query_lower),
      type |-> QueryType(query_lower)]

\* --------------------------------------------------------------- retrieve
\* The f32 scores of retrieve are kept in units of 1/ScoreDen and rounded down
\* after every operation.
ScoreDen == 10000
One == ScoreDen
Fx(num, den) == (num * ScoreDen) \div den
MulFx(a, b) == (a * b) \div ScoreDen

\* The text of the model's feature keywords, as Unicode scalar values.
Chars(keyword) ==
  CASE keyword = "pero" -> <<112, 101, 114, 111>>
    [] keyword = "blue" -> <<98, 108, 117, 101>>
    [] keyword = "red" -> <<114, 101, 100>>
    [] keyword = "rust" -> <<114, 117, 115, 116>>
    [] keyword = "sourcefeat" -> <<115, 111, 117, 114, 99, 101, 102, 101, 97, 116>>
    [] keyword = "targetnormal" -> <<116, 97, 114, 103, 101, 116, 110, 111, 114, 109, 97, 108>>
    [] keyword = "targetequal" -> <<116, 97, 114, 103, 101, 116, 101, 113, 117, 97, 108>>
    [] keyword = "targetinhibit" -> <<116, 97, 114, 103, 101, 116, 105, 110, 104, 105, 98, 105, 116>>

\* The patterns of the automaton that match the haystack at offset i.
MatchesAt(patterns, hay, i) ==
  {p \in 1..Len(patterns) :
     LET pat == Chars(patterns[p])
     IN /\ i + Len(pat) <= Len(hay)
        /\ SubSeq(hay, i + 1, i + Len(pat)) = pat}

\* AhoCorasick::find_iter with MatchKind::LeftmostLongest: the pattern indexes
\* of the non-overlapping matches from offset pos on.
RECURSIVE FindIter(_, _, _)
FindIter(patterns, hay, pos) ==
  LET starts == {i \in pos..(Len(hay) - 1) : MatchesAt(patterns, hay, i) # {}}
  IN IF starts = {} THEN <<>>
     ELSE LET i == CHOOSE s \in starts : \A t \in starts : s <= t
              ms == MatchesAt(patterns, hay, i)
              Longer(p, r) ==
                \/ Len(Chars(patterns[p])) > Len(Chars(patterns[r]))
                \/ Len(Chars(patterns[p])) = Len(Chars(patterns[r])) /\ p <= r
              p == CHOOSE m \in ms : \A r \in ms : Longer(m, r)
          IN <<p>> \o FindIter(patterns, hay, i + Len(Chars(patterns[p])))

\* map.get(k).unwrap_or(default)
GetOr(m, k, default) == IF k \in DOMAIN m THEN m[k] ELSE default

\* for id in candidates: entry(id).or_insert(0.0), raised to energy if below.
RECURSIVE Resonate(_, _, _)
Resonate(activated, candidates, energy) ==
  IF candidates = <<>> THEN activated
  ELSE LET id == Head(candidates)
           entry == GetOr(activated, id, 0)
       IN Resonate(MapInsert(activated, id, IF entry < energy THEN energy ELSE entry),
                   Tail(candidates), energy)

\* Step 1.6: the buckets of the emotion bits of the query, bit 0 to bit 7.
RECURSIVE AffectiveResonance(_, _, _, _)
AffectiveResonance(activated, index, emotion_hash, i) ==
  IF i > 7 THEN activated
  ELSE AffectiveResonance(
         IF BitSet(emotion_hash, i) /\ (2 ^ i) \in DOMAIN index
         THEN Resonate(activated, index[2 ^ i], Fx(7, 10))
         ELSE activated,
         index, emotion_hash, i + 1)

\* Steps 1 to 1.6 of retrieve: the seeds and their energies.
ActivatedKeywords(e, query_lower, query_fp) ==
  LET matches == IF e.ac_matcher = None THEN <<>>
                 ELSE FindIter(e.ac_matcher[1], query_lower, 0)
      hit == {e.keyword_to_node[e.feature_keywords[matches[i]]] :
                i \in {j \in 1..Len(matches) :
                         e.feature_keywords[matches[j]] \in DOMAIN e.keyword_to_node}}
      by_keyword == [id \in hit |-> One]
      by_time == IF query_fp.temporal # 0 /\ query_fp.temporal \in DOMAIN e.temporal_index
                 THEN Resonate(by_keyword, e.temporal_index[query_fp.temporal], Fx(6, 10))
                 ELSE by_keyword
  IN IF query_fp.affective # 0
     THEN AffectiveResonance(by_time, e.affective_index, query_fp.affective, 0)
     ELSE by_time

\* 1.0 / (1.0 + (degree as f32).log10())
LogFactor(degree) ==
  CASE degree = 1 -> 10000
    [] degree = 2 -> 7686
    [] degree = 3 -> 6769
    [] degree = 4 -> 6241
    [] degree = 5 -> 5885
    [] degree = 6 -> 5623
    [] degree = 7 -> 5419
    [] degree = 8 -> 5254
    [] degree = 9 -> 5117
    [] degree = 10 -> 5000

InhibitionFactor(e, id) == LogFactor(GetOr(e.in_degrees, id, 1))

\* Step 2 where an inhibition edge adds its energy.
DiffuseOntologyEdgeWrongInhibitionAdds(e, ontology_expanded, score, edge) ==
  LET weight == (edge.connection_strength * ScoreDen) \div U16Max
      target == edge.target_node_id
      entry == GetOr(ontology_expanded, target, 0)
      energy == MulFx(MulFx(MulFx(score, weight), Fx(95, 100)),
                      InhibitionFactor(e, target))
  IN IF edge.edge_type = EDGE_EQUALITY
     THEN MapInsert(ontology_expanded, target, IF score > entry THEN score ELSE entry)
     ELSE IF edge.edge_type = EDGE_INHIBITION
     THEN MapInsert(ontology_expanded, target, entry + energy)
     ELSE IF energy < Fx(5, 100) THEN ontology_expanded
     ELSE MapInsert(ontology_expanded, target, Max(entry, energy))

\* Step 2, one ontology edge of a seed of energy score.
DiffuseOntologyEdge(e, ontology_expanded, score, edge) ==
  LET weight == (edge.connection_strength * ScoreDen) \div U16Max
      target == edge.target_node_id
      entry == GetOr(ontology_expanded, target, 0)
      energy == MulFx(MulFx(MulFx(score, weight), Fx(95, 100)),
                      InhibitionFactor(e, target))
  IN IF edge.edge_type = EDGE_EQUALITY
     THEN MapInsert(ontology_expanded, target, IF score > entry THEN score ELSE entry)
     ELSE IF edge.edge_type = EDGE_INHIBITION
     THEN MapInsert(ontology_expanded, target, entry - energy)
     ELSE IF energy < Fx(5, 100) THEN ontology_expanded
     ELSE MapInsert(ontology_expanded, target, Max(entry, energy))

RECURSIVE DiffuseOntologyEdges(_, _, _, _)
DiffuseOntologyEdges(e, ontology_expanded, score, neighbors) ==
  IF neighbors = <<>> THEN ontology_expanded
  ELSE DiffuseOntologyEdges(
         e, DiffuseOntologyEdge(e, ontology_expanded, score, Head(neighbors)),
         score, Tail(neighbors))

\* Step 2 that goes on from every node it reaches, with the energy it gave it.
RECURSIVE OntologyExpandedWrongFollowsTargets(_, _, _, _)
OntologyExpandedWrongFollowsTargets(e, activated_keywords, ontology_expanded, order) ==
  IF order = <<>> THEN ontology_expanded
  ELSE LET node_id == Head(order)
           score == IF node_id \in DOMAIN ontology_expanded
                    THEN ontology_expanded[node_id] ELSE 0
           next == IF node_id \in DOMAIN e.ontology_graph
                   THEN DiffuseOntologyEdges(e, ontology_expanded, score,
                                             e.ontology_graph[node_id])
                   ELSE ontology_expanded
           reached == DOMAIN next \ DOMAIN ontology_expanded
           more == CHOOSE f \in [1..Cardinality(reached) -> reached] :
                     \A r \in reached : \E i \in DOMAIN f : f[i] = r
       IN OntologyExpandedWrongFollowsTargets(e, activated_keywords, next,
                                              Tail(order) \o more)

\* Step 2: the seeds are visited in the order the hash map yields them.
RECURSIVE OntologyExpanded(_, _, _, _)
OntologyExpanded(e, activated_keywords, ontology_expanded, order) ==
  IF order = <<>> THEN ontology_expanded
  ELSE LET node_id == Head(order)
           next == IF node_id \in DOMAIN e.ontology_graph
                   THEN DiffuseOntologyEdges(e, ontology_expanded,
                                             activated_keywords[node_id],
                                             e.ontology_graph[node_id])
                   ELSE ontology_expanded
       IN OntologyExpanded(e, activated_keywords, next, Tail(order))

RECURSIVE SumValues(_, _)
SumValues(m, keys) ==
  IF keys = {} THEN 0
  ELSE LET k == CHOOSE x \in keys : TRUE IN m[k] + SumValues(m, keys \ {k})

\* Step 3: energy normalization.
Normalized(ontology_expanded) ==
  LET total_energy == SumValues(ontology_expanded, DOMAIN ontology_expanded)
  IN IF total_energy > 10 * One
     THEN LET factor == (10 * One * ScoreDen) \div total_energy
          IN [k \in DOMAIN ontology_expanded |-> MulFx(ontology_expanded[k], factor)]
     ELSE ontology_expanded

\* ---------------------------------------------------------------- compile
\* The orders in which a hash map may yield the keys in S.
Orders(S) ==
  {f \in [1..Cardinality(S) -> S] : \A i, j \in 1..Cardinality(S) : i # j => f[i] # f[j]}

\* str::len of the feature keywords, in bytes.
ByteLen(keyword) ==
  CASE keyword = "red" -> 3
    [] keyword = "sourcefeat" -> 10
    [] keyword = "targetnormal" -> 12
    [] keyword = "targetequal" -> 11
    [] keyword = "targetinhibit" -> 13
    [] OTHER -> 4

\* keywords.sort_by(|a, b| b.len().cmp(&a.len())): stable, longest first.
RECURSIVE SortByLenDesc(_)
SortByLenDesc(keywords) ==
  IF keywords = <<>> THEN <<>>
  ELSE LET rest == SortByLenDesc(SubSeq(keywords, 1, Len(keywords) - 1))
           x == keywords[Len(keywords)]
           Before(k) == ByteLen(k) >= ByteLen(x)
           After(k) == ByteLen(k) < ByteLen(x)
       IN SelectSeq(rest, Before) \o <<x>> \o SelectSeq(rest, After)

RECURSIVE FeatureContents(_, _, _)
FeatureContents(ns, order, i) ==
  IF i > Len(order) THEN <<>>
  ELSE (IF ns[order[i]].node_type = Feature THEN <<ns[order[i]].content>> ELSE <<>>)
         \o FeatureContents(ns, order, i + 1)

\* The number of edges of g that point at id.
RECURSIVE EdgesInto(_, _, _)
EdgesInto(g, keys, id) ==
  IF keys = {} THEN 0
  ELSE LET k == CHOOSE x \in keys : TRUE
       IN Cardinality({i \in 1..Len(g[k]) : g[k][i].target_node_id = id})
            + EdgesInto(g, keys \ {k}, id)

Targets(g) == UNION {{g[k][i].target_node_id : i \in 1..Len(g[k])} : k \in DOMAIN g}

InDegrees(g, og) ==
  [id \in Targets(g) \cup Targets(og) |->
     EdgesInto(g, DOMAIN g, id) + EdgesInto(og, DOMAIN og, id)]

\* self.temporal_index.clear(), self.affective_index.clear()
ClearedWrongKept(index) == index

Cleared(index) == <<>>

RECURSIVE IndexTemporal(_, _, _, _)
IndexTemporal(index, ns, order, i) ==
  IF i > Len(order) THEN index
  ELSE LET node == ns[order[i]]
           st_hash == node.fingerprint.temporal
       IN IndexTemporal(IF node.node_type = Event /\ st_hash # 0
                        THEN PushBucket(index, st_hash, node.id) ELSE index,
                        ns, order, i + 1)

RECURSIVE IndexAffective(_, _, _, _)
IndexAffective(index, ns, order, i) ==
  IF i > Len(order) THEN index
  ELSE LET node == ns[order[i]]
           emotion_hash == node.fingerprint.affective
       IN IndexAffective(IF node.node_type = Event /\ emotion_hash # 0
                         THEN PushEmotionBuckets(index,
                                EmotionBitsFrom(emotion_hash, 0), node.id)
                         ELSE index,
                         ns, order, i + 1)

\* ------------------------------------------------- retrieve, steps 4 and 5
\* results.sort_by(|a, b| b.1.partial_cmp(&a.1).unwrap()): a stable sort of
\* (id, score) pairs, the highest score first.
RECURSIVE SortByScoreDesc(_)
SortByScoreDesc(results) ==
  IF results = <<>> THEN <<>>
  ELSE LET rest == SortByScoreDesc(Tail(results))
           x == Head(results)
           before == SelectSeq(rest, LAMBDA r : r[2] > x[2])
           after == SelectSeq(rest, LAMBDA r : r[2] <= x[2])
       IN before \o <<x>> \o after

\* map.iter().collect() in the order the hash map yields its keys.
Collect(m, order) == [i \in 1..Len(order) |-> <<order[i], m[order[i]]>>]

layer_limit == 5000

\* Lateral inhibition: the layer_limit strongest seeds.
Seeds(ontology_expanded, order) ==
  LET seeds == SortByScoreDesc(Collect(ontology_expanded, order))
  IN IF Len(seeds) > layer_limit THEN SubSeq(seeds, 1, layer_limit) ELSE seeds

\* Step 4, the edges of one seed in the memory graph.
RECURSIVE DiffuseMemoryEdges(_, _, _, _)
DiffuseMemoryEdges(e, acc, score, neighbors) ==
  IF neighbors = <<>> THEN acc
  ELSE LET edge == Head(neighbors)
           weight == (edge.connection_strength * ScoreDen) \div U16Max
           decay == Fx(85, 100)
           energy == MulFx(MulFx(MulFx(score, weight), decay),
                           InhibitionFactor(e, edge.target_node_id))
           next == IF energy < Fx(1, 100) THEN acc
                   ELSE MapInsert(acc, edge.target_node_id,
                                  GetOr(acc, edge.target_node_id, 0) + energy)
       IN DiffuseMemoryEdges(e, next, score, Tail(neighbors))

RECURSIVE Increments(_, _, _)
Increments(e, acc, seeds) ==
  IF seeds = <<>> THEN acc
  ELSE LET node_id == Head(seeds)[1]
           score == Head(seeds)[2]
           next == IF node_id \in DOMAIN e.graph
                   THEN DiffuseMemoryEdges(e, acc, score, e.graph[node_id])
                   ELSE acc
       IN Increments(e, next, Tail(seeds))

\* Step 5: the diffused energy is added to the scores.
ResultsMap(final_scores, increments) ==
  [id \in DOMAIN final_scores \cup DOMAIN increments |->
     GetOr(final_scores, id, 0) + GetOr(increments, id, 0)]

IsEvent(e, id) == id \in DOMAIN e.nodes /\ e.nodes[id].node_type = Event

\* SimHash::similarity_weighted on the semantic zone (32 bits, kept as the set
\* of the bits that are 1) and on a zone kept as a number of the given width.
SemanticSim(a, b) == One - Fx(Cardinality((a \ b) \cup (b \ a)), 32)
ZoneSim(a, b, width) ==
  One - Fx(Cardinality({i \in 0..(width - 1) : BitSet(a, i) # BitSet(b, i)}), width)

\* a & b != 0 on the emotion bytes
SharesBit(a, b) == \E i \in 0..7 : BitSet(a, i) /\ BitSet(b, i)

ResonanceBoost(query_fp, node_fp) ==
  MulFx(SemanticSim(query_fp.semantic, node_fp.semantic), Fx(6, 10))
    + (IF query_fp.temporal # 0
       THEN MulFx(ZoneSim(query_fp.temporal, node_fp.temporal, 16), Fx(5, 10))
       ELSE 0)
    + (IF query_fp.affective # 0 /\ SharesBit(query_fp.affective, node_fp.affective)
       THEN Fx(6, 10) ELSE 0)
    + (IF query_fp.type # 0
       THEN MulFx(ZoneSim(query_fp.type, node_fp.type, 8), Fx(8, 10))
       ELSE 0)

\* (-delta_t / tau).exp().max(0.8), tau = 31536000: the series of exp up to
\* the cubic term where the factor is above 0.8.
FinalDecay(delta_t) ==
  IF delta_t >= 7037031 THEN Fx(8, 10)
  ELSE LET x == (delta_t * 100) \div 315360
           decay_factor == One - x + MulFx(x, x) \div 2 - MulFx(MulFx(x, x), x) \div 6
       IN Max(decay_factor, Fx(8, 10))

\* The refinement of one of the first 50 results.
Refined(e, query_fp, ref_time, result) ==
  LET id == result[1]
      score == result[2]
      node == e.nodes[id]
      current_decay_time == IF ref_time > 0 THEN ref_time ELSE 1777593600
      decayed == IF node.timestamp > 0 /\ node.timestamp < current_decay_time
                 THEN MulFx(score, FinalDecay(current_decay_time - node.timestamp))
                 ELSE score
  IN IF id \in DOMAIN e.nodes
     THEN <<id, decayed + ResonanceBoost(query_fp, node.fingerprint)>>
     ELSE result

\* The orders a hash map may yield the seeds in: they matter only when the
\* seeds are cut at layer_limit.
SeedOrders(ontology_expanded) ==
  IF Cardinality(DOMAIN ontology_expanded) <= layer_limit
  THEN {CHOOSE order \in Orders(DOMAIN ontology_expanded) : TRUE}
  ELSE Orders(DOMAIN ontology_expanded)

\* Steps 4 and 5 up to the refinement, for every order results_map may yield
\* its Event entries in.
RefinedOutcomes(e, query_fp, ref_time, ontology_expanded) ==
  UNION {
    LET increments == Increments(e, <<>>, Seeds(ontology_expanded, seed_order))
        results_map == ResultsMap(ontology_expanded, increments)
        events == {id \in DOMAIN results_map : IsEvent(e, id)}
    IN {LET results == SortByScoreDesc(Collect(results_map, result_order))
        IN [i \in 1..Len(results) |->
              IF i <= 50 THEN Refined(e, query_fp, ref_time, results[i])
              ELSE results[i]] : result_order \in Orders(events)}
    : seed_order \in SeedOrders(ontology_expanded)}

\* The rational track: the refined results before the last sort, for every
\* order activated_keywords may yield the seeds in.
RationalOutcomes(e, query, ref_time) ==
  LET query_lower == ToLowercase(query)
      query_fp == ComputeForQuery(query_lower, ref_time)
      activated_keywords == ActivatedKeywords(e, query_lower, query_fp)
  IN UNION {
       RefinedOutcomes(e, query_fp, ref_time,
                       Normalized(OntologyExpanded(e, activated_keywords,
                                                   activated_keywords, keyword_order)))
       : keyword_order \in Orders(DOMAIN activated_keywords)}

\* ------------------------------------------------- retrieve, chaos fusion
\* The largest r with r * r <= n, for lo * lo <= n < hi * hi.
RECURSIVE IsqrtIn(_, _, _)
IsqrtIn(n, lo, hi) ==
  IF hi - lo <= 1 THEN lo
  ELSE LET mid == (lo + hi) \div 2
       IN IF mid * mid <= n THEN IsqrtIn(n, mid, hi) ELSE IsqrtIn(n, lo, mid)

\* sqrt of a whole number, as a score
SqrtFx(n) == IsqrtIn(n * ScoreDen * ScoreDen, 0, 46341)

\* The vectors an embedding model may give a text (f16 values that are whole
\* numbers), or none.
EmbedOutputs == {None, Some(<<1, 0>>), Some(<<1, 1>>), Some(<<0, 1>>)}

\* StorageEngine::quantize_vector: bit i is 1 when component i is positive.
QuantizeVector(vec) == {i \in 0..(Len(vec) - 1) : i < 512 /\ vec[i + 1] > 0}

\* calculate_chaos without the early return on a missing model.
CalculateChaosWrongNoModelCheck(e) ==
  {IF out = None THEN None
   ELSE Some([fingerprint |-> QuantizeVector(out[1]), vector |-> out[1]])
   : out \in EmbedOutputs}

\* calculate_chaos: nothing without a model, else whatever the model gives.
CalculateChaos(e) ==
  IF e.embedding_model = None THEN {None}
  ELSE {IF out = None THEN None
        ELSE Some([fingerprint |-> QuantizeVector(out[1]), vector |-> out[1]])
        : out \in EmbedOutputs}

\* ChaosFingerprint::hamming_distance
HammingDistance(a, b) == Cardinality((a \ b) \cup (b \ a))

RECURSIVE SumTo(_, _)
SumTo(f, n) == IF n = 0 THEN 0 ELSE f[n] + SumTo(f, n - 1)

Dot(a, b) == SumTo([i \in 1..Min(Len(a), Len(b)) |-> a[i] * b[i]], Min(Len(a), Len(b)))

\* The chaos score a stored row adds, 0 when it adds none.
WeightedChaos(query_vec, row, chaos_level) ==
  LET q_norm == SqrtFx(Dot(query_vec, query_vec))
      n_norm == SqrtFx(Dot(row.vector, row.vector))
      sim == (Dot(query_vec, row.vector) * ScoreDen * ScoreDen) \div MulFx(q_norm, n_norm)
      normalized == ((sim - Fx(6, 10)) * ScoreDen) \div Fx(4, 10)
  IN IF row.vector # <<>> /\ q_norm > 0 /\ n_norm > 0 /\ sim > Fx(6, 10)
     THEN MulFx(MulFx(normalized, Fx(15, 100)), chaos_level)
     ELSE 0

\* The rows within Hamming distance 256 of the query whose vector resonates.
Resonating(e, query_chaos, chaos_level) ==
  {i \in 1..Len(e.chaos_store) :
     /\ HammingDistance(query_chaos.fingerprint, e.chaos_store[i].fingerprint) < 256
     /\ LET q_norm == SqrtFx(Dot(query_chaos.vector, query_chaos.vector))
            row == e.chaos_store[i]
            n_norm == SqrtFx(Dot(row.vector, row.vector))
        IN /\ row.vector # <<>>
           /\ q_norm > 0
           /\ n_norm > 0
           /\ (Dot(query_chaos.vector, row.vector) * ScoreDen * ScoreDen)
                \div MulFx(q_norm, n_norm) > Fx(6, 10)}

\* combined_results: the rational scores weighted by 1 - chaos_level, plus the
\* chaos score of every resonating row, under the id of that row.
CombinedResults(e, results, chaos_level, query_chaos) ==
  LET rational == {results[i][1] : i \in 1..Len(results)}
      ScoreOf(id) == LET i == CHOOSE k \in 1..Len(results) : results[k][1] = id
                     IN MulFx(results[i][2], One - chaos_level)
      rows == Resonating(e, query_chaos, chaos_level)
      chaotic == {e.chaos_store[i].id : i \in rows}
      ChaosOf(id) == LET i == CHOOSE k \in rows : e.chaos_store[k].id = id
                     IN WeightedChaos(query_chaos.vector, e.chaos_store[i], chaos_level)
  IN [id \in rational \cup chaotic |->
        (IF id \in rational THEN ScoreOf(id) ELSE 0)
          + (IF id \in chaotic THEN ChaosOf(id) ELSE 0)]

\* The last sort of the rational results.
Sorted(results) == SortByScoreDesc(results)

\* retrieve: every list it may return.
RetrieveOutcomes(e, query, ref_time, chaos_level) ==
  UNION {
    IF chaos_level > 0
    THEN UNION {
           IF query_chaos = None THEN {Sorted(results)}
           ELSE LET combined_results ==
                      CombinedResults(e, results, chaos_level, query_chaos[1])
                IN {SortByScoreDesc(Collect(combined_results, order))
                    : order \in Orders(DOMAIN combined_results)}
           : query_chaos \in CalculateChaos(e)}
    ELSE {Sorted(results)}
    : results \in RationalOutcomes(e, query, ref_time)}

\* ---------------------------------------------------------- storage files
\* A u64 is the set of its one bits.  The index file is a sequence of 8-byte
\* words (every region of it starts and ends on a multiple of 8 bytes), the
\* payload file a sequence of bytes.
WordBytes == 8

\* The bits of n, 0 <= n < 2^31, and of a negative i64 in two's complement.
U64Bits(n) == {i \in 0..30 : (n \div (2 ^ i)) % 2 = 1}
I64Bits(n) == IF n >= 0 THEN U64Bits(n) ELSE (0..63) \ U64Bits((-n) - 1)

RECURSIVE BitsValue(_)
BitsValue(b) ==
  IF b = {} THEN 0
  ELSE LET i == CHOOSE x \in b : TRUE IN 2 ^ i + BitsValue(b \ {i})

I64Value(b) == IF 63 \in b THEN (-BitsValue((0..63) \ b)) - 1 ELSE BitsValue(b)

\* Two u32 (or a u32 and a u8 with padding) sharing one little-endian word.
Pack32(lo, hi) == U64Bits(lo) \cup {i + 32 : i \in U64Bits(hi)}
Lo32(b) == BitsValue(b \cap (0..31))
Hi32(b) == BitsValue({i - 32 : i \in b \cap (32..63)})

\* u64::wrapping_add and wrapping_mul by a small factor.
RECURSIVE AddFrom(_, _, _, _)
AddFrom(a, b, i, carry) ==
  IF i > 63 THEN {}
  ELSE LET sum == (IF i \in a THEN 1 ELSE 0) + (IF i \in b THEN 1 ELSE 0) + carry
       IN (IF sum % 2 = 1 THEN {i} ELSE {}) \cup AddFrom(a, b, i + 1, sum \div 2)

WrappingAdd(a, b) == AddFrom(a, b, 0, 0)

RECURSIVE WrappingMul(_, _)
WrappingMul(n, c) == IF n = 0 THEN {} ELSE WrappingAdd(c, WrappingMul(n - 1, c))

RECURSIVE Flatten(_)
Flatten(seqs) == IF seqs = <<>> THEN <<>> ELSE Head(seqs) \o Flatten(Tail(seqs))

\* size_of IndexHeader, NodeMetadata, ChaosFingerprint.
HeaderSize == 7 * WordBytes
MetadataSize == 2 * WordBytes
ChaosFingerprintSize == 8 * WordBytes

AlignTo(offset, align) == ((offset + align - 1) \div align) * align

\* The offsets of the five arrays of an index file of node_count rows.
Layout(node_count) ==
  LET simhash_offset == AlignTo(HeaderSize, 32)
      id_offset == AlignTo(simhash_offset + node_count * 8, 32)
      metadata_offset == AlignTo(id_offset + node_count * 8, 32)
      chaos_fingerprint_offset ==
        AlignTo(metadata_offset + node_count * MetadataSize, 32)
      chaos_vector_offset ==
        AlignTo(chaos_fingerprint_offset + node_count * ChaosFingerprintSize, 32)
  IN [simhash_offset |-> simhash_offset, id_offset |-> id_offset,
      metadata_offset |-> metadata_offset,
      chaos_fingerprint_offset |-> chaos_fingerprint_offset,
      chaos_vector_offset |-> chaos_vector_offset]

MakeHeader(magic, version, node_count) ==
  LET l == Layout(node_count)
  IN [magic |-> magic, version |-> version, node_count |-> node_count,
      simhash_offset |-> l.simhash_offset, id_offset |-> l.id_offset,
      metadata_offset |-> l.metadata_offset,
      chaos_fingerprint_offset |-> l.chaos_fingerprint_offset,
      chaos_vector_offset |-> l.chaos_vector_offset]

\* bytemuck::bytes_of(&header) and bytemuck::from_bytes
HeaderWords(h) ==
  <<h.magic, Pack32(h.version, h.node_count), U64Bits(h.simhash_offset),
    U64Bits(h.id_offset), U64Bits(h.metadata_offset),
    U64Bits(h.chaos_fingerprint_offset), U64Bits(h.chaos_vector_offset)>>

ParseHeader(words) ==
  [magic |-> words[1], version |-> Lo32(words[2]), node_count |-> Hi32(words[2]),
   simhash_offset |-> BitsValue(words[3]), id_offset |-> BitsValue(words[4]),
   metadata_offset |-> BitsValue(words[5]),
   chaos_fingerprint_offset |-> BitsValue(words[6]),
   chaos_vector_offset |-> BitsValue(words[7])]

\* vec![0u8; to - from]
Padding(from, to) == [i \in 1..((to - from) \div WordBytes) |-> {}]

\* bytemuck::bytes_of(&NodeMetadata { data_offset, data_len, node_type, .. })
MetadataWords(data_offset, data_len, node_type) ==
  <<U64Bits(data_offset), Pack32(data_len, node_type)>>

\* The index file: header, then each array at its offset.
IndexFile(h, simhashes, ids, metadata, chaos_fingerprints, chaos_vectors) ==
  LET n == h.node_count
      p0 == HeaderWords(h) \o Padding(HeaderSize, h.simhash_offset) \o simhashes
      p1 == p0 \o Padding(h.simhash_offset + n * 8, h.id_offset) \o ids
      p2 == p1 \o Padding(h.id_offset + n * 8, h.metadata_offset) \o metadata
      p3 == p2 \o Padding(h.metadata_offset + n * MetadataSize,
                          h.chaos_fingerprint_offset) \o chaos_fingerprints
  IN p3 \o Padding(h.chaos_fingerprint_offset + n * ChaosFingerprintSize,
                   h.chaos_vector_offset) \o chaos_vectors

\* ------------------------------------------------ generate_binary_dataset
MagicBits ==
  {0, 1, 4, 5, 9, 10, 12, 14, 16, 17, 18, 19, 20, 22, 24, 30, 32, 33, 36, 38,
   42, 46, 48, 50, 54, 60, 62}
\* 0x9E3779B97F4A7C15 and 0x123456789ABCDEF0
SimhashPattern ==
  {0, 2, 4, 10, 11, 12, 13, 14, 17, 19, 22, 24, 25, 26, 27, 28, 29, 30, 32, 35,
   36, 37, 39, 40, 43, 44, 45, 46, 48, 49, 50, 52, 53, 57, 58, 59, 60, 63}
ChaosPattern ==
  {4, 5, 6, 7, 9, 10, 11, 12, 14, 15, 18, 19, 20, 21, 23, 25, 27, 28, 31, 35,
   36, 37, 38, 41, 42, 44, 46, 50, 52, 53, 57, 60}

\* The UTF-8 bytes of the generated summary of node i (i < 10): the text
\* before the number, its digit, the text after it.
GeneratedText(i) ==
  <<232, 191, 153, 230, 152, 175, 228, 184, 128, 228, 184, 170, 230, 168, 161,
    230, 139, 159, 231, 154, 132, 228, 186, 139, 228, 187, 182, 230, 128, 187,
    231, 187, 147, 232, 138, 130, 231, 130, 185, 239, 188, 140, 231, 188, 150,
    229, 143, 183, 228, 184, 186, 32>>
  \o <<48 + i>> \o
  <<239, 188, 140, 231, 148, 168, 228, 186, 142, 32, 86, 51, 32, 83, 111, 65,
    32, 230, 158, 182, 230, 158, 132, 230, 181, 139, 232, 175, 149, 227, 128,
    130>>

\* Four f16 0.01 (0x211F), the vector the caller's vectorizer falls back to.
VectorizerWord == UNION {{b + 16 * k : b \in {0, 1, 2, 3, 4, 8, 13}} : k \in 0..3}

RECURSIVE GeneratedMetadata(_, _, _)
GeneratedMetadata(i, node_count, current_data_offset) ==
  IF i >= node_count THEN <<>>
  ELSE MetadataWords(current_data_offset, Len(GeneratedText(i)),
                     IF i < 1000 THEN 0 ELSE 1)
         \o GeneratedMetadata(i + 1, node_count,
                              current_data_offset + Len(GeneratedText(i)))

GenerateBinaryDataset(node_count) ==
  LET h == MakeHeader(MagicBits, 2, node_count)
  IN [index |->
        IndexFile(h,
          [i \in 1..node_count |-> WrappingMul(i - 1, SimhashPattern)],
          [i \in 1..node_count |-> I64Bits(2000000000 + (i - 1))],
          GeneratedMetadata(0, node_count, 0),
          Flatten([i \in 1..node_count |->
                     <<WrappingMul(i - 1, ChaosPattern), {}, {}, {}, {}, {}, {},
                       U64Bits(i)>>]),
          Flatten([i \in 1..node_count |-> [w \in 1..VectorWords |-> VectorizerWord]])),
      data |-> Flatten([i \in 1..node_count |-> GeneratedText(i - 1)])]

\* ------------------------------------------------------ StorageEngine::new
\* from_raw_parts(ptr.add(offset), count): count elements of `words` words.
Slice(mmap, offset, count, words) ==
  SubSeq(mmap, offset \div WordBytes + 1, offset \div WordBytes + count * words)

StorageEngineNew(index_file, data_file) ==
  LET header == ParseHeader(SubSeq(index_file, 1, HeaderSize \div WordBytes))
      n == header.node_count
  IN [index_mmap |-> index_file,
      data_mmap |-> data_file,
      header |-> header,
      simhashes |-> Slice(index_file, header.simhash_offset, n, 1),
      ids |-> Slice(index_file, header.id_offset, n, 1),
      metadata |-> Slice(index_file, header.metadata_offset, n, 2),
      chaos_fingerprints |-> Slice(index_file, header.chaos_fingerprint_offset, n, 8),
      chaos_vectors |-> Slice(index_file, header.chaos_vector_offset, n, VectorWords),
      buffer_simhashes |-> <<>>, buffer_ids |-> <<>>, buffer_texts |-> <<>>,
      buffer_node_types |-> <<>>, buffer_chaos_fingerprints |-> <<>>,
      buffer_chaos_vectors |-> <<>>]

\* ------------------------------------------------------------ insert_node
InsertNodeFn(s, id, simhash, text, node_type, chaos_fp, chaos_vec) ==
  [s EXCEPT !.buffer_ids = Append(@, id),
            !.buffer_simhashes = Append(@, simhash),
            !.buffer_texts = Append(@, text),
            !.buffer_node_types = Append(@, node_type),
            !.buffer_chaos_fingerprints = Append(@, chaos_fp),
            !.buffer_chaos_vectors =
               @ \o (IF Len(chaos_vec) = VectorWords THEN chaos_vec
                     ELSE [w \in 1..VectorWords |-> {}])]

\* -------------------------------------------------------------- accessors
\* Rows are numbered from 0, as in the source.
DiskCount(s) == s.header.node_count
NodeCount(s) == s.header.node_count + Len(s.buffer_ids)

GetId(s, idx) ==
  IF idx < DiskCount(s) THEN I64Value(s.ids[idx + 1])
  ELSE s.buffer_ids[idx - DiskCount(s) + 1]

GetSimhash(s, idx) ==
  IF idx < DiskCount(s) THEN s.simhashes[idx + 1]
  ELSE s.buffer_simhashes[idx - DiskCount(s) + 1]

DiskNodeType(s, idx) == Hi32(s.metadata[2 * idx + 2]) % 256

GetNodeType(s, idx) ==
  IF idx < DiskCount(s) THEN DiskNodeType(s, idx)
  ELSE s.buffer_node_types[idx - DiskCount(s) + 1]

\* &self.data_mmap[start..end] panics when the range leaves the mapping.
GetNodeTextByIdx(s, idx) ==
  IF idx < DiskCount(s)
  THEN LET start == BitsValue(s.metadata[2 * idx + 1])
           end == start + Lo32(s.metadata[2 * idx + 2])
       IN IF end > Len(s.data_mmap) THEN <<"panic">>
          ELSE SubSeq(s.data_mmap, start + 1, end)
  ELSE s.buffer_texts[idx - DiskCount(s) + 1]

GetChaosFingerprintByIdx(s, idx) ==
  IF idx < DiskCount(s) THEN SubSeq(s.chaos_fingerprints, 8 * idx + 1, 8 * idx + 8)
  ELSE s.buffer_chaos_fingerprints[idx - DiskCount(s) + 1]

GetChaosVectorByIdx(s, idx) ==
  IF idx < DiskCount(s)
  THEN SubSeq(s.chaos_vectors, idx * VectorWords + 1, (idx + 1) * VectorWords)
  ELSE LET buf_idx == idx - DiskCount(s)
       IN SubSeq(s.buffer_chaos_vectors, buf_idx * VectorWords + 1,
                 (buf_idx + 1) * VectorWords)

\* ---------------------------------------------------------------- persist
\* The metadata of the buffered rows: their texts follow the old payload.
RECURSIVE AppendedMetadataWrongOffset(_, _, _)
AppendedMetadataWrongOffset(s, i, current_data_offset) ==
  IF i > Len(s.buffer_ids) THEN <<>>
  ELSE MetadataWords(current_data_offset - Len(s.data_mmap),
                     Len(s.buffer_texts[i]), s.buffer_node_types[i])
         \o AppendedMetadataWrongOffset(s, i + 1,
                                        current_data_offset + Len(s.buffer_texts[i]))

RECURSIVE AppendedMetadata(_, _, _)
AppendedMetadata(s, i, current_data_offset) ==
  IF i > Len(s.buffer_ids) THEN <<>>
  ELSE MetadataWords(current_data_offset, Len(s.buffer_texts[i]),
                     s.buffer_node_types[i])
         \o AppendedMetadata(s, i + 1, current_data_offset + Len(s.buffer_texts[i]))

\* What persist writes to the idx.tmp and dat.tmp files.
PersistIndexFile(s) ==
  LET new_node_count == s.header.node_count + Len(s.buffer_ids)
      new_header == MakeHeader(s.header.magic, s.header.version, new_node_count)
  IN IndexFile(new_header,
       s.simhashes \o s.buffer_simhashes,
       s.ids \o [i \in 1..Len(s.buffer_ids) |-> I64Bits(s.buffer_ids[i])],
       s.metadata \o AppendedMetadata(s, 1, Len(s.data_mmap)),
       s.chaos_fingerprints \o Flatten(s.buffer_chaos_fingerprints),
       s.chaos_vectors \o s.buffer_chaos_vectors)

PersistDataFile(s) == s.data_mmap \o Flatten(s.buffer_texts)

\* ------------------------------------------------------------- scan_simd
\* Scores are counted in 64ths: 1.0 - dist/64 is (64 - dist)/64, and the
\* initial -1.0 is -64.
Score64(sh, query_fp) == 64 - Cardinality((sh \ query_fp) \cup (query_fp \ sh))

Skips(target_type, node_type) == target_type # None /\ node_type # target_type[1]

\* if score > max_score { max_score = score; max_idx = idx; }
Improve(best, idx, score) ==
  IF score > best.max_score THEN [max_idx |-> idx, max_score |-> score] ELSE best

RECURSIVE ScanLanes(_, _, _, _, _, _)
ScanLanes(s, query_fp, target_type, i, j, best) ==
  IF j > 3 THEN best
  ELSE LET idx == i * 4 + j
       IN ScanLanes(s, query_fp, target_type, i, j + 1,
                    IF Skips(target_type, DiskNodeType(s, idx)) THEN best
                    ELSE Improve(best, idx, Score64(s.simhashes[idx + 1], query_fp)))

RECURSIVE ScanChunks(_, _, _, _, _, _)
ScanChunks(s, query_fp, target_type, i, chunks, best) ==
  IF i >= chunks THEN best
  ELSE ScanChunks(s, query_fp, target_type, i + 1, chunks,
                  ScanLanes(s, query_fp, target_type, i, 0, best))

RECURSIVE ScanRemainder(_, _, _, _, _, _)
ScanRemainder(s, query_fp, target_type, i, disk_count, best) ==
  IF i >= disk_count THEN best
  ELSE ScanRemainder(s, query_fp, target_type, i + 1, disk_count,
                     IF Skips(target_type, DiskNodeType(s, i)) THEN best
                     ELSE Improve(best, i, Score64(s.simhashes[i + 1], query_fp)))

ScanDiskPartFiltered(s, query_fp, target_type) ==
  LET disk_count == s.header.node_count
      chunks == disk_count \div 4
  IN ScanRemainder(s, query_fp, target_type, chunks * 4, disk_count,
       ScanChunks(s, query_fp, target_type, 0, chunks,
                  [max_idx |-> 0, max_score |-> -64]))

RECURSIVE ScanBufferWrongIndex(_, _, _, _, _)
ScanBufferWrongIndex(s, query_fp, target_type, i, best) ==
  IF i >= Len(s.buffer_simhashes) THEN best
  ELSE ScanBufferWrongIndex(s, query_fp, target_type, i + 1,
         IF Skips(target_type, s.buffer_node_types[i + 1]) THEN best
         ELSE Improve(best, i, Score64(s.buffer_simhashes[i + 1], query_fp)))

RECURSIVE ScanBuffer(_, _, _, _, _)
ScanBuffer(s, query_fp, target_type, i, best) ==
  IF i >= Len(s.buffer_simhashes) THEN best
  ELSE ScanBuffer(s, query_fp, target_type, i + 1,
         IF Skips(target_type, s.buffer_node_types[i + 1]) THEN best
         ELSE Improve(best, s.header.node_count + i,
                      Score64(s.buffer_simhashes[i + 1], query_fp)))

ScanSimdFiltered(s, query_fp, target_type) ==
  ScanBuffer(s, query_fp, target_type, 0,
             ScanDiskPartFiltered(s, query_fp, target_type))

ScanSimdFn(s, query_fp) == ScanSimdFiltered(s, query_fp, None)

\* ---------------------------------------------------------- search_hybrid
\* f16::to_f32 of a finite f16 given by its 16 bits, in units of 2^-24.
HalfValue(bits) ==
  LET mantissa == BitsValue(bits \cap (0..9))
      exponent == BitsValue({b - 10 : b \in bits \cap (10..14)})
      magnitude == IF exponent = 0 THEN mantissa
                   ELSE (1024 + mantissa) * 2 ^ (exponent - 1)
  IN IF 15 \in bits THEN -magnitude ELSE magnitude

\* The f16 values of a vector stored as 8-byte words, four to a word.
LaneValues(vec) ==
  [j \in 1..(4 * Len(vec)) |->
     LET word == vec[(j - 1) \div 4 + 1]
         k == (j - 1) % 4
     IN HalfValue({b - 16 * k : b \in word \cap ((16 * k)..(16 * k + 15))})]

RECURSIVE Gcd(_, _)
Gcd(a, b) == IF b = 0 THEN a ELSE Gcd(b, a % b)

Magnitude(x) == IF x < 0 THEN -x ELSE x

RECURSIVE GcdOf(_, _)
GcdOf(values, n) == IF n = 0 THEN 0 ELSE Gcd(Magnitude(values[n]), GcdOf(values, n - 1))

\* Cosine similarity does not change when a vector is scaled: the values of a
\* vector are divided by their greatest common divisor, which keeps the
\* integers of the model small.
Scaled(values) ==
  LET g == GcdOf(values, Len(values))
  IN IF g = 0 THEN values ELSE [j \in 1..Len(values) |-> values[j] \div g]

\* dot and norm_sq of a stored vector against the query, on scaled values.
Cosine(vec_data, query_vec) ==
  LET v == Scaled(LaneValues(vec_data))
      q == Scaled(LaneValues(query_vec))
  IN [dot |-> Dot(v, q), norm_sq |-> Dot(v, v), query_sq |-> Dot(q, q)]

\* dot / (norm_sq.sqrt() * query_norm), 0.0 for a zero vector, as a score.
CosineScore(c) ==
  IF c.norm_sq > 0
  THEN (c.dot * ScoreDen * 100) \div IsqrtIn(c.norm_sq * c.query_sq * 10000, 0, 46341)
  ELSE 0

\* The comparison of two such scores against one query, made exactly on the
\* squares: dot_a / sqrt(norm_a) > dot_b / sqrt(norm_b).
Sign(x) == IF x > 0 THEN 1 ELSE IF x < 0 THEN -1 ELSE 0
ScoreAbove(a, b) ==
  LET na == IF a.norm_sq > 0 THEN a.norm_sq ELSE 1
      nb == IF b.norm_sq > 0 THEN b.norm_sq ELSE 1
      da == IF a.norm_sq > 0 THEN a.dot ELSE 0
      db == IF b.norm_sq > 0 THEN b.dot ELSE 0
  IN Sign(da) * da * da * nb > Sign(db) * db * db * na

\* ChaosFingerprint::hamming_distance on fingerprints of eight words.
ChaosDistance(fp, query_fp) ==
  SumTo([w \in 1..8 |-> Cardinality((fp[w] \ query_fp[w]) \cup (query_fp[w] \ fp[w]))], 8)

\* The orders in which rows may come out sorted by ascending distance: rows at
\* the same distance come in any order (the heap and the parallel merge decide).
RECURSIVE AscendingOrders(_, _, _)
AscendingOrders(s, query_fp, rows) ==
  IF rows = {} THEN {<<>>}
  ELSE LET Dist(r) == ChaosDistance(GetChaosFingerprintByIdx(s, r), query_fp)
           nearest == {r \in rows : \A r2 \in rows : Dist(r) <= Dist(r2)}
       IN UNION {{<<r>> \o rest : rest \in AscendingOrders(s, query_fp, rows \ {r})}
                 : r \in nearest}

\* scan_chaos_parallel: the n rows nearest to the query, nearest first, with
\* their distances; every list it may return.
ScanChaosParallel(s, query_fp, n) ==
  {[i \in 1..Min(n, Len(order)) |->
      <<order[i], ChaosDistance(GetChaosFingerprintByIdx(s, order[i]), query_fp)>>]
   : order \in AscendingOrders(s, query_fp, 0..(NodeCount(s) - 1))}

\* results.sort_by(|a, b| b.1.partial_cmp(&a.1)...): stable, best score first.
RECURSIVE SortByCosineDesc(_)
SortByCosineDesc(results) ==
  IF results = <<>> THEN <<>>
  ELSE LET rest == SortByCosineDesc(Tail(results))
           x == Head(results)
           before == SelectSeq(rest, LAMBDA r : ScoreAbove(r.cosine, x.cosine))
           after == SelectSeq(rest, LAMBDA r : ~ScoreAbove(r.cosine, x.cosine))
       IN before \o <<x>> \o after

\* search_hybrid with the candidates sorted by ascending score.
SearchHybridWrongWorstFirst(s, query_fp, query_vec, top_k, l1_candidates) ==
  IF Cosine(query_vec, query_vec).query_sq = 0 THEN {<<>>}
  ELSE {LET best_first == SortByCosineDesc(
                            [i \in 1..Len(candidates) |->
                               [idx |-> candidates[i][1],
                                cosine |-> Cosine(GetChaosVectorByIdx(s, candidates[i][1]),
                                                  query_vec)]])
            results == [i \in 1..Len(best_first) |-> best_first[Len(best_first) + 1 - i]]
        IN [i \in 1..Min(top_k, Len(results)) |->
              <<results[i].idx, CosineScore(results[i].cosine)>>]
        : candidates \in ScanChaosParallel(s, query_fp, l1_candidates)}

\* search_hybrid: every list it may return, as (row, score) pairs.
SearchHybridFn(s, query_fp, query_vec, top_k, l1_candidates) ==
  IF Cosine(query_vec, query_vec).query_sq = 0 THEN {<<>>}
  ELSE {LET results == SortByCosineDesc(
                         [i \in 1..Len(candidates) |->
                            [idx |-> candidates[i][1],
                             cosine |-> Cosine(GetChaosVectorByIdx(s, candidates[i][1]),
                                               query_vec)]])
        IN [i \in 1..Min(top_k, Len(results)) |->
              <<results[i].idx, CosineScore(results[i].cosine)>>]
        : candidates \in ScanChaosParallel(s, query_fp, l1_candidates)}

\* -------------------------------------------------- build_temporal_backbone
\* events.sort_by: the Event ids by ascending timestamp, then by ascending id.
RECURSIVE SortedEvents(_, _)
SortedEvents(ns, ids) ==
  IF ids = {} THEN <<>>
  ELSE LET first == CHOOSE a \in ids : \A b \in ids :
                      \/ ns[a].timestamp < ns[b].timestamp
                      \/ (ns[a].timestamp = ns[b].timestamp /\ a <= b)
       IN <<first>> \o SortedEvents(ns, ids \ {first})

\* build_temporal_backbone: prev_event is written on every event but the
\* first, next_event on every event but the last; nothing is set to None.
BuildTemporalBackboneFn(ns) ==
  LET events == SortedEvents(ns, {id \in DOMAIN ns : ns[id].node_type = Event})
      At(id) == CHOOSE i \in 1..Len(events) : events[i] = id
  IN [id \in DOMAIN ns |->
        IF ns[id].node_type # Event THEN ns[id]
        ELSE [ns[id] EXCEPT
                !.prev_event = IF At(id) > 1 THEN Some(events[At(id) - 1]) ELSE @,
                !.next_event = IF At(id) < Len(events)
                               THEN Some(events[At(id) + 1]) ELSE @]]

\* ------------------------------------------------- add_event and compile
\* add_event on &mut self; computed is what calculate_chaos gives the summary.
\* The chaos row is the caller's, or the computed one when the caller passes
\* none.
AddEventFn(s, id, summary, chaos_fp, chaos_vec, computed) ==
  LET node == EventNode(id, summary)
      given_fingerprint == UnwrapOr(chaos_fp, DefaultChaosFingerprint)
      given_vector == UnwrapOr(chaos_vec, EmptyChaosVector)
      auto == /\ given_fingerprint = DefaultChaosFingerprint
              /\ given_vector = EmptyChaosVector
              /\ computed # None
      chaos_fingerprint == IF auto THEN computed[1].fingerprint ELSE given_fingerprint
      chaos_vector == IF auto THEN computed[1].vector ELSE given_vector
      fingerprint == node.fingerprint
  IN [s EXCEPT
        !.nodes = MapInsert(@, id, node),
        !.chaos_store =
           IF chaos_fingerprint # DefaultChaosFingerprint \/ chaos_vector # EmptyChaosVector
           THEN ChaosStoreAdd(@, id, chaos_fingerprint, chaos_vector)
           ELSE @,
        !.temporal_index =
           IF fingerprint.temporal # 0
           THEN PushBucket(@, fingerprint.temporal, id)
           ELSE @,
        !.affective_index =
           PushEmotionBuckets(@, EmotionBitsFrom(fingerprint.affective, 0), id)]

\* compile: nodes.values() yields the nodes in an order the hash map chooses.
CompileFn(s, order) ==
  LET keywords == SortByLenDesc(FeatureContents(s.nodes, order, 1))
  IN [s EXCEPT
        !.ac_matcher = IF keywords # <<>> THEN Some(keywords) ELSE @,
        !.feature_keywords = IF keywords # <<>> THEN keywords ELSE @,
        !.in_degrees = InDegrees(s.graph, s.ontology_graph),
        !.temporal_index = IndexTemporal(Cleared(@), s.nodes, order, 1),
        !.affective_index = IndexAffective(Cleared(@), s.nodes, order, 1)]

\* ----------------------------------------------------------------- inputs
Relations == {"Equality", "conflict", "representation"}
Pairs == {<<"Pero", "blue">>, <<"blue", "Pero">>, <<"Pero", "Pero">>, <<"Pero", "The">>}

\* The maintain_ontology calls explored: every pair with every relation at
\* weight 0.5; a negative, a zero and a full weight on one pair; a stopword source;
\* a third feature.
MaintainCalls ==
  {<<p[1], p[2], r, W(4)>> : p \in Pairs, r \in Relations}
    \cup {<<"Pero", "blue", "Equality", w>> : w \in {W(-4), W(8)}}
    \cup {<<"Pero", "blue", "representation", w>> : w \in {W(0), W(8)}}
    \cup {<<"The", "blue", "conflict", W(8)>>,
          <<"Pero", "red", "representation", W(8)>>}

Actions == {"UPSERT", "Replace", "delete"}
MaintenanceCalls ==
  {<<"Pero", "red", "representation", W(8)>>, <<"blue", "Pero", "Equality", W(4)>>,
   <<"Pero", "The", "conflict", W(8)>>}

ArbitrationSources == {"Pero", "blue", "The"}
DeleteTargets == {<<"blue">>, <<"Pero", "The", "red">>}
DecayRates == {W(8), W(4)}
Thresholds == {0, 20000}
EdgeIds == {101, 1}
EdgeWeights == {W(-4), W(4), W(12), NaN}

\* add_feature calls: a new keyword, a keyword on the id of an event, and a
\* stopword.
FeatureCalls == {<<101, "Pero">>, <<1, "blue">>, <<7, "The">>}

\* add_event calls: a summary without date or emotion, one dated to timestamp
\* 0, and two whose different dates share one temporal hash; one call brings
\* a chaos fingerprint and vector.
Summaries ==
  {"kickoff", "1970Y0M0D kickoff", "2020Y1M31D happy", "2027Y9M29D sad happy"}
EventCalls ==
  {<<id, summary, None, None>> : id \in {1, 2}, summary \in Summaries}
    \cup {<<101, "2020Y1M31D happy", Some({0}), Some(<<1, 0>>)>>}

\* insert_node calls: a node with text and a full vector; one that repeats
\* the fingerprint of generated row 1, with a negative id, no text and no
\* vector; one with a two-byte text and a vector of the wrong length.
SimhashA == {0, 5, 63}
SimhashC == {0, 5}
ChaosFingerprintA == <<{1}, {}, {}, {}, {}, {}, {}, {2, 63}>>
ChaosFingerprintZero == <<{}, {}, {}, {}, {}, {}, {}, {}>>
InsertCalls ==
  {<<999999999, SimhashA, <<104, 105>>, 1, ChaosFingerprintA,
     [w \in 1..VectorWords |-> {0, 17}]>>,
   <<-7, SimhashPattern, <<>>, 0, ChaosFingerprintZero, <<>>>>,
   <<42, SimhashC, <<195, 169>>, 1, ChaosFingerprintA,
     [w \in 1..(VectorWords + 1) |-> {3}]>>}

Queries == {SimhashA, SimhashPattern, SimhashC, {}}

\* search_hybrid calls. The query fingerprint is at distance 64 or more from
\* every generated row; the hot nodes inserted are at distance 0, 8 and 2 from
\* it. HalfWord(k) is a word whose lane k holds the f16 0.01, the others 0.0.
HalfWord(k) == {b + 16 * k : b \in {0, 1, 2, 3, 4, 8, 13}}
HybridQueryFingerprint == <<{1}, 0..63, {}, {}, {}, {}, {}, {2, 63}>>
HybridInsertCalls ==
  {<<100001, SimhashA, <<104, 105>>, 1, HybridQueryFingerprint,
     [w \in 1..VectorWords |-> HalfWord(0)]>>,
   <<100002, SimhashC, <<>>, 1, <<{1}, 8..63, {}, {}, {}, {}, {}, {2, 63}>>,
     [w \in 1..VectorWords |-> HalfWord(1)]>>,
   <<100003, SimhashC, <<195, 169>>, 1, <<{}, 0..63, {}, {}, {}, {}, {}, {2}>>,
     [w \in 1..(VectorWords + 1) |-> HalfWord(0)]>>}
HybridQueryFingerprints == {HybridQueryFingerprint, ChaosFingerprintA}
HybridQueryVectors ==
  {[w \in 1..VectorWords |-> {}], [w \in 1..VectorWords |-> HalfWord(0)]}
HybridLimits == {<<1, 1>>, <<1, 1000>>, <<5, 1>>, <<5, 1000>>}

\* 大前天的会议
QueryDaQianTian == <<22823, 21069, 22825, 30340, 20250, 35758>>

\* what happened just now
QueryJustNow == <<119, 104, 97, 116, 32, 104, 97, 112, 112, 101, 110, 101, 100, 32, 106, 117, 115, 116, 32, 110, 111, 119>>

\* 昨天发生了什么
QueryZuoTian == <<26152, 22825, 21457, 29983, 20102, 20160, 20040>>

\* 刚才说了什么
QueryGangCai == <<21018, 25165, 35828, 20102, 20160, 20040>>

\* Last Week report
QueryLastWeek == <<76, 97, 115, 116, 32, 87, 101, 101, 107, 32, 114, 101, 112, 111, 114, 116>>

\* 2025 report
Query2025 == <<50, 48, 50, 53, 32, 114, 101, 112, 111, 114, 116>>

\* hello
QueryHello == <<104, 101, 108, 108, 111>>

\* SourceFeat
QuerySourceFeat == <<83, 111, 117, 114, 99, 101, 70, 101, 97, 116>>

\* Rust 编程
\* "SourceFeat TargetNormal"
QueryTwoSources == <<83, 111, 117, 114, 99, 101, 70, 101, 97, 116, 32, 84, 97, 114, 103, 101, 116, 78, 111, 114, 109, 97, 108>>

QueryRust == <<82, 117, 115, 116, 32, 32534, 31243>>

\* happy Pero
QueryHappyPero == <<104, 97, 112, 112, 121, 32, 80, 101, 114, 111>>

\* The reference time of the queries: none, and 2024-01-05 in the arithmetic of
\* extract_timestamp, (2024 - 1970) * 31536000 + 1 * 2592000 + 5 * 86400.
RefTimes == {0, 1705968000}

QueryTexts ==
  {QueryDaQianTian,
   QueryJustNow,
   QueryZuoTian,
   QueryGangCai,
   QueryLastWeek,
   Query2025,
   QueryHello,
   QuerySourceFeat,
   QueryRust,
   QueryHappyPero}

\* ---------------------------------------------------------- retrieve runs
\* AdvancedEngine::new as one value.
NewEngine ==
  [nodes |-> <<>>, feature_keywords |-> <<>>, keyword_to_node |-> <<>>,
   graph |-> <<>>, ontology_graph |-> <<>>, chaos_store |-> <<>>,
   ac_matcher |-> None, in_degrees |-> <<>>, temporal_index |-> <<>>,
   affective_index |-> <<>>, embedding_model |-> None]

\* The graph fields of s replaced by those of e.
WithEngine(s, e) ==
  [s EXCEPT !.nodes = e.nodes, !.feature_keywords = e.feature_keywords,
            !.keyword_to_node = e.keyword_to_node, !.graph = e.graph,
            !.ontology_graph = e.ontology_graph]

FeatureAdded(s, id, keyword) == WithEngine(s, AddFeatureFn(s, id, keyword))
EventAdded(s, id, summary) == AddEventFn(s, id, summary, None, None, None)
EdgeAdded(s, src, tgt, weight) == [s EXCEPT !.graph = AddEdgeFn(@, src, tgt, weight)]
OntologyMaintained(s, source, target, relation_type, strength) ==
  WithEngine(s, MaintainOntologyFn(s, source, target, relation_type, strength))

\* The typed-edge scenario built with the given event summaries and strength of
\* the representation edge, compiled.
TypedEdgesWith(normal, equal, inhibit, strength) ==
  LET s1 == EdgeAdded(EventAdded(FeatureAdded(NewEngine, 1001, "TargetNormal"),
                                 2001, normal), 1001, 2001, W(8))
      s2 == EdgeAdded(EventAdded(FeatureAdded(s1, 1002, "TargetEqual"),
                                 2002, equal), 1002, 2002, W(8))
      s3 == EdgeAdded(EventAdded(FeatureAdded(s2, 1003, "TargetInhibit"),
                                 2003, inhibit), 1003, 2003, W(8))
      s4 == OntologyMaintained(s3, "SourceFeat", "TargetNormal", "representation",
                               strength)
      s5 == OntologyMaintained(s4, "SourceFeat", "TargetEqual", "equality", W(8))
      s6 == OntologyMaintained(s5, "SourceFeat", "TargetInhibit", "inhibition",
                               Tenths(8))
  IN CompileFn(s6, <<1001, 2001, 1002, 2002, 1003, 2003, FeatureHashId("sourcefeat")>>)

\* test_scenario_18_edge_types up to compile().
TypedEdgesEngine ==
  TypedEdgesWith("Event Normal Content", "Event Equal Content",
                 "Event Inhibit Content", Tenths(9))

\* test_retrieval_without_vector_model up to compile().
RustKeywordEngine ==
  CompileFn(EdgeAdded(EventAdded(FeatureAdded(NewEngine, 1001, "rust"),
                                 1, "Rust language"), 1001, 1, W(8)),
            <<1001, 1>>)

\* test_v2_temporal_resonance: two dated events and no compile(); the second
\* comes with the chaos fingerprint and vector of its caller.
DatedEventsEngine ==
  AddEventFn(EventAdded(NewEngine, 100, "2024Y1M4D rust"),
             101, "2025Y1M1D python", Some({0}), Some(<<1, 0>>), None)

ScenarioEngines == {TypedEdgesEngine, RustKeywordEngine, DatedEventsEngine}

\* Summaries for the events behind the representation and the equality edge:
\* those of the test, the source keyword itself, one with a date and an
\* emotion, one with neither.
TypedSummaries ==
  {"Event Normal Content", "Event Equal Content", "SourceFeat", "2020Y1M31D happy",
   "kickoff"}

\* add_event and add_feature calls made on the scenarios: the meeting of three
\* days before the reference time, and a keyword on the id of an event.
RecallEventCalls == {<<102, "2024Y1M2D meeting", None, None>>}
RecallFeatureCalls == {<<101, "Pero">>}

\* The retrieve calls explored: a query and its ref_time.
RetrieveCalls ==
  {<<QuerySourceFeat, 0>>, <<QueryRust, 0>>, <<QueryHappyPero, 0>>,
   <<QueryZuoTian, 1705968000>>, <<QueryDaQianTian, 1705968000>>}

\* chaos_level, as a score: 0.0 and 0.5
ChaosLevels == {0, Fx(5, 10)}

\* ------------------------------------------------------------------- Init
\* AdvancedEngine::new
InitEngine ==
  /\ nodes = <<>>
  /\ feature_keywords = <<>>
  /\ keyword_to_node = <<>>
  /\ graph = <<>>
  /\ ontology_graph = <<>>
  /\ chaos_store = <<>>
  /\ ac_matcher = None
  /\ in_degrees = <<>>
  /\ temporal_index = <<>>
  /\ affective_index = <<>>
  /\ embedding_model = None
  /\ steps = 0
  /\ last = [op |-> "new", args |-> <<>>, ret |-> None, old |-> None, prev |-> <<>>]
  /\ pc = "idle"
  /\ originals = <<>>

\* AdvancedEngine::new: no storage engine is opened.
Init ==
  /\ InitEngine
  /\ files = <<>>
  /\ store = None

\* StorageEngine::new on the files generate_binary_dataset wrote.
InitStore ==
  /\ InitEngine
  /\ files = LET d == GenerateBinaryDataset(InitNodes)
             IN [path \in {"index", "data"} |-> IF path = "index" THEN d.index ELSE d.data]
  /\ store = StorageEngineNew(files["index"], files["data"])

SetEngine(e) ==
  /\ nodes' = e.nodes
  /\ feature_keywords' = e.feature_keywords
  /\ keyword_to_node' = e.keyword_to_node
  /\ graph' = e.graph
  /\ ontology_graph' = e.ontology_graph

SetSelf(s) ==
  /\ SetEngine(s)
  /\ chaos_store' = s.chaos_store
  /\ ac_matcher' = s.ac_matcher
  /\ in_degrees' = s.in_degrees
  /\ temporal_index' = s.temporal_index
  /\ affective_index' = s.affective_index
  /\ embedding_model' = s.embedding_model

\* The edges src -> tgt of an adjacency map, and the strength of the first.
EdgesTo(g, src, tgt) ==
  IF src \in DOMAIN g
  THEN {i \in 1..Len(g[src]) : g[src][i].target_node_id = tgt}
  ELSE {}

StrengthOf(g, src, tgt) == g[src][FindEdge(g[src], tgt)].connection_strength

OldStrength(g, src, tgt) ==
  IF EdgesTo(g, src, tgt) = {} THEN None ELSE Some(StrengthOf(g, src, tgt))

\* The id a word stands for under a vocabulary, None if it has none yet.
ResolveIn(k2n, word) ==
  IF Lower(word) \in Stopwords THEN Some(StopId)
  ELSE IF Lower(word) \in DOMAIN k2n THEN Some(k2n[Lower(word)])
  ELSE None

OldOntologyStrength(source, target) ==
  LET s == ResolveIn(keyword_to_node, source)
      t == ResolveIn(keyword_to_node, target)
  IN IF s = None \/ t = None THEN None
     ELSE OldStrength(ontology_graph, s[1], t[1])

\* The operation taken, its arguments and result; old is the strength the
\* addressed edge had before the call (None if there was none, or if the
\* operation addresses no edge); prev is the call before this one.
Step(op, args, ret, old) ==
  /\ steps < MaxOps
  /\ steps' = steps + 1
  /\ last' = [op |-> op, args |-> args, ret |-> ret, old |-> old,
              prev |-> <<last.op, last.args>>]
  /\ UNCHANGED store_vars

\* ---------------------------------------------------------------- actions
MaintainOntology ==
  \E c \in MaintainCalls :
    /\ Step("maintain_ontology", c, None, OldOntologyStrength(c[1], c[2]))
    /\ SetEngine(MaintainOntologyFn(Eng, c[1], c[2], c[3], c[4]))
    /\ UNCHANGED index_vars

ExecuteMaintenance ==
  \E action \in Actions, c \in MaintenanceCalls :
    LET r == ExecuteMaintenanceFn(Eng, action, c[1], c[2], c[3], c[4])
    IN /\ Step("execute_maintenance", <<action>> \o c, r.context,
               OldOntologyStrength(c[1], c[2]))
       /\ SetEngine(r.e)
       /\ UNCHANGED index_vars

ApplyArbitration ==
  \E source \in ArbitrationSources, delete_targets \in DeleteTargets :
    /\ Step("apply_arbitration", <<source, delete_targets>>, None, None)
    /\ SetEngine(ApplyArbitrationFn(Eng, source, delete_targets))
    /\ UNCHANGED index_vars

ApplyGlobalDecayAndPruning ==
  \E decay_rate \in DecayRates, threshold \in Thresholds :
    LET r == ApplyGlobalDecayAndPruningFn(ontology_graph, decay_rate, threshold)
    IN /\ Step("apply_global_decay_and_pruning", <<decay_rate, threshold>>,
               r.pruned_count, None)
       /\ ontology_graph' = r.ontology_graph
       /\ UNCHANGED <<nodes, feature_keywords, keyword_to_node, graph>>
       /\ UNCHANGED index_vars

AddEdge ==
  \E src \in EdgeIds, tgt \in EdgeIds, weight \in EdgeWeights :
    /\ Step("add_edge", <<src, tgt, weight>>, None, OldStrength(graph, src, tgt))
    /\ graph' = AddEdgeFn(graph, src, tgt, weight)
    /\ UNCHANGED <<nodes, feature_keywords, keyword_to_node, ontology_graph>>
    /\ UNCHANGED index_vars

\* Ontology maintenance: the LLM-driven upkeep of the definition graph.
Next ==
  \/ MaintainOntology
  \/ ExecuteMaintenance
  \/ ApplyArbitration
  \/ ApplyGlobalDecayAndPruning

Spec == Init /\ [][Next]_vars

\* Both graphs: memory edges, ontology edges and pruning.
NextGraph ==
  \/ AddEdge
  \/ MaintainOntology
  \/ ApplyGlobalDecayAndPruning

SpecGraph == Init /\ [][NextGraph]_vars

AddFeature ==
  \E c \in FeatureCalls :
    /\ Step("add_feature", c, None, None)
    /\ SetEngine(AddFeatureFn(Eng, c[1], c[2]))
    /\ UNCHANGED index_vars

\* add_event with one of the given calls.
AddEventFrom(calls) ==
  \E c \in calls, computed \in CalculateChaos(Self) :
    /\ Step("add_event", c, None, None)
    /\ SetSelf(AddEventFn(Self, c[1], c[2], c[3], c[4], computed))

AddEvent == AddEventFrom(EventCalls)

Compile ==
  \E order \in Orders(DOMAIN nodes) :
    /\ Step("compile", <<>>, None, None)
    /\ SetSelf(CompileFn(Self, order))

\* Building and compiling the memory: features, events, edges, compile.
NextIndex ==
  \/ AddFeature
  \/ AddEvent
  \/ AddEdge
  \/ Compile

SpecIndex == Init /\ [][NextIndex]_vars

\* get_or_create_feature called on its own, as the tests of the crate do.
FeatureWords == {"The", "的", "Pero", "red"}

GetOrCreateFeatureCall ==
  \E word \in FeatureWords :
    LET r == GetOrCreateFeature(Eng, word)
    IN /\ Step("get_or_create_feature", <<word>>, r.id, None)
       /\ SetEngine(r.e)
       /\ UNCHANGED index_vars

\* The vocabulary: features added by id and features created on demand.
NextVocab ==
  \/ AddFeature
  \/ GetOrCreateFeatureCall

SpecVocab == Init /\ [][NextVocab]_vars

\* compute_for_query called on its own.
ComputeForQueryCall ==
  \E query \in QueryTexts, ref_time \in RefTimes :
    /\ Step("compute_for_query", <<query, ref_time>>,
            ComputeForQuery(query, ref_time), None)
    /\ UNCHANGED <<engine_vars, index_vars>>

\* Query fingerprints.
NextQuery == ComputeForQueryCall

SpecQuery == Init /\ [][NextQuery]_vars

\* engine.embedding_model = Some(model)
LoadEmbeddingModel ==
  /\ embedding_model = None
  /\ Step("load_embedding_model", <<>>, None, None)
  /\ embedding_model' = Some("model")
  /\ UNCHANGED <<engine_vars, chaos_store, ac_matcher, in_degrees, temporal_index,
                 affective_index>>

AddRecallEvent == AddEventFrom(RecallEventCalls)

AddRecallFeature ==
  \E c \in RecallFeatureCalls :
    /\ Step("add_feature", c, None, None)
    /\ SetEngine(AddFeatureFn(Eng, c[1], c[2]))
    /\ UNCHANGED index_vars

\* retrieve reads the engine; the list it returns is kept in last.ret.
Retrieve ==
  \E c \in RetrieveCalls, chaos_level \in ChaosLevels :
    \E results \in RetrieveOutcomes(Self, c[1], c[2], chaos_level) :
      /\ Step("retrieve", <<c[1], c[2], chaos_level>>, results, None)
      /\ UNCHANGED <<engine_vars, index_vars>>

\* The state of a program whose engine is s.
Loaded(s) ==
  /\ nodes = s.nodes
  /\ feature_keywords = s.feature_keywords
  /\ keyword_to_node = s.keyword_to_node
  /\ graph = s.graph
  /\ ontology_graph = s.ontology_graph
  /\ chaos_store = s.chaos_store
  /\ ac_matcher = s.ac_matcher
  /\ in_degrees = s.in_degrees
  /\ temporal_index = s.temporal_index
  /\ affective_index = s.affective_index
  /\ embedding_model = s.embedding_model
  /\ steps = 0
  /\ last = [op |-> "new", args |-> <<>>, ret |-> None, old |-> None, prev |-> <<>>]
  /\ pc = "idle"
  /\ originals = <<>>
  /\ files = <<>>
  /\ store = None

\* An engine loaded by one of the scenarios.
InitRetrieve == \E s \in ScenarioEngines : Loaded(s)

\* Retrieval on a loaded engine.
NextRetrieve ==
  \/ LoadEmbeddingModel
  \/ AddRecallEvent
  \/ AddRecallFeature
  \/ Retrieve

SpecRetrieve == InitRetrieve /\ [][NextRetrieve]_vars

\* Every operation that writes the engine's graphs, vocabulary or indexes.
\* The operations of a run of at most MaxEngineOps operations.
EngineRuns == steps < MaxEngineOps

MaintainOntologyInRun == EngineRuns /\ MaintainOntology
ExecuteMaintenanceInRun == EngineRuns /\ ExecuteMaintenance
ApplyArbitrationInRun == EngineRuns /\ ApplyArbitration
ApplyGlobalDecayAndPruningInRun == EngineRuns /\ ApplyGlobalDecayAndPruning
AddEdgeInRun == EngineRuns /\ AddEdge
AddFeatureInRun == EngineRuns /\ AddFeature
AddEventInRun == EngineRuns /\ AddEvent
CompileInRun == EngineRuns /\ Compile

NextEngine ==
  \/ MaintainOntologyInRun
  \/ ExecuteMaintenanceInRun
  \/ ApplyArbitrationInRun
  \/ ApplyGlobalDecayAndPruningInRun
  \/ AddEdgeInRun
  \/ AddFeatureInRun
  \/ AddEventInRun
  \/ CompileInRun

\* An engine that has been through maintain_ontology twice and add_edge
\* once: ontology edges of two strengths and one memory edge.
OntologySeededEngine ==
  LET first == MaintainOntologyFn(NewEngine, "Pero", "red", "representation", W(8))
      second == MaintainOntologyFn(first, "blue", "Pero", "Equality", W(4))
  IN WithEngine(NewEngine, [second EXCEPT !.graph = AddEdgeFn(@, 101, 1, W(4))])

\* The runs start on a new engine or on the seeded one and take at most
\* MaxEngineOps operations.
InitEngineRuns == \E s \in {NewEngine, OntologySeededEngine} : Loaded(s)

SpecEngine == InitEngineRuns /\ [][NextEngine]_vars

\* retrieve on the source keyword of the typed-edge scenario, at chaos level 0.
RetrieveSource ==
  \E ref_time \in RefTimes :
    \E results \in RetrieveOutcomes(Self, QuerySourceFeat, ref_time, 0) :
      /\ Step("retrieve", <<QuerySourceFeat, ref_time, 0>>, results, None)
      /\ UNCHANGED <<engine_vars, index_vars>>

\* The typed-edge scenario with any of the summaries on its two events.
InitTyped ==
  \E normal \in TypedSummaries, equal \in TypedSummaries :
    Loaded(TypedEdgesWith(normal, equal, "Event Inhibit Content", Tenths(9)))

NextTyped == RetrieveSource

SpecTyped == InitTyped /\ [][NextTyped]_vars

\* ------------------------------------------------ temporal backbone runs
\* add_event calls on the two dated events of the scenario and on a new id.
BackboneEventCalls ==
  {<<100, "2027Y9M29D sad happy", None, None>>,
   <<101, "2020Y1M31D happy", None, None>>,
   <<102, "2024Y1M2D meeting", None, None>>}

AddBackboneEvent == AddEventFrom(BackboneEventCalls)

BuildTemporalBackbone ==
  /\ Step("build_temporal_backbone", <<>>, None, None)
  /\ nodes' = BuildTemporalBackboneFn(nodes)
  /\ UNCHANGED <<feature_keywords, keyword_to_node, graph, ontology_graph, index_vars>>

InitBackbone == Loaded(DatedEventsEngine)

NextBackbone == AddBackboneEvent \/ AddRecallFeature \/ BuildTemporalBackbone

SpecBackbone == InitBackbone /\ [][NextBackbone]_vars

\* --------------------------------------------------- two ontology hops
\* A chain of two ontology edges, SourceFeat -> TargetNormal -> TargetEqual,
\* of the given relation types, with one event behind each target, compiled.
TwoHopsWith(first, second, normal, equal) ==
  LET s1 == EdgeAdded(EventAdded(FeatureAdded(NewEngine, 1001, "TargetNormal"),
                                 2001, normal), 1001, 2001, W(8))
      s2 == EdgeAdded(EventAdded(FeatureAdded(s1, 1002, "TargetEqual"),
                                 2002, equal), 1002, 2002, W(8))
      s3 == OntologyMaintained(s2, "SourceFeat", "TargetNormal", first, W(8))
      s4 == OntologyMaintained(s3, "TargetNormal", "TargetEqual", second, W(8))
  IN CompileFn(s4, <<1001, 2001, 1002, 2002, FeatureHashId("sourcefeat")>>)

InitTwoHops ==
  \E first \in Relations, second \in Relations,
     normal \in TypedSummaries, equal \in TypedSummaries :
    Loaded(TwoHopsWith(first, second, normal, equal))

SpecTwoHops == InitTwoHops /\ [][NextTyped]_vars

\* ------------------------------------------- two sources of one target
\* Two keywords of one query, SourceFeat and TargetNormal, each with an
\* ontology edge of the given relation type to TargetEqual; one event behind
\* each of the two targets, compiled.
TwoSourcesWith(first, second, normal, equal) ==
  LET s1 == EdgeAdded(EventAdded(FeatureAdded(NewEngine, 1001, "TargetNormal"),
                                 2001, normal), 1001, 2001, W(8))
      s2 == EdgeAdded(EventAdded(FeatureAdded(s1, 1002, "TargetEqual"),
                                 2002, equal), 1002, 2002, W(8))
      s3 == OntologyMaintained(s2, "SourceFeat", "TargetEqual", first, Tenths(5))
      s4 == OntologyMaintained(s3, "TargetNormal", "TargetEqual", second, W(8))
  IN CompileFn(s4, <<1001, 2001, 1002, 2002, FeatureHashId("sourcefeat")>>)

InitTwoSources ==
  \E first \in Relations, second \in Relations,
     normal \in TypedSummaries, equal \in TypedSummaries :
    Loaded(TwoSourcesWith(first, second, normal, equal))

\* retrieve on a query that names both sources, at chaos level 0.
RetrieveTwoSources ==
  \E ref_time \in RefTimes :
    \E results \in RetrieveOutcomes(Self, QueryTwoSources, ref_time, 0) :
      /\ Step("retrieve", <<QueryTwoSources, ref_time, 0>>, results, None)
      /\ UNCHANGED <<engine_vars, index_vars>>

NextTwoSources == RetrieveTwoSources

SpecTwoSources == InitTwoSources /\ [][NextTwoSources]_vars

\* ---------------------------------------------------------- store actions
StoreStep(op, args, ret) ==
  /\ last' = [op |-> op, args |-> args, ret |-> ret, old |-> None, prev |-> <<>>]
  /\ UNCHANGED <<engine_vars, index_vars, steps>>

RemoveFile(fs, path) == [p \in DOMAIN fs \ {path} |-> fs[p]]

InsertNode ==
  \E c \in InsertCalls :
    /\ pc = "idle"
    /\ NodeCount(store) < InitNodes + MaxInserts
    /\ store' = InsertNodeFn(store, c[1], c[2], c[3], c[4], c[5], c[6])
    /\ StoreStep("insert_node", c, None)
    /\ UNCHANGED <<files, pc, originals>>

\* persist with an empty buffer returns Ok at once.
PersistEmpty ==
  /\ pc = "idle"
  /\ store.buffer_ids = <<>>
  /\ StoreStep("persist", <<0>>, "Ok")
  /\ UNCHANGED store_vars

\* persist, first part: both tmp files are created, written and flushed.
PersistWriteTmp ==
  /\ pc = "idle"
  /\ store.buffer_ids # <<>>
  /\ files' = MapInsert(MapInsert(files, "index_tmp", PersistIndexFile(store)),
                        "data_tmp", PersistDataFile(store))
  /\ originals' = [index |-> files["index"], data |-> files["data"]]
  /\ pc' = "tmp_written"
  /\ StoreStep("persist", <<Len(store.buffer_ids)>>, "running")
  /\ UNCHANGED store

\* persist stopped while writing the tmp files: by a failed write (Err is
\* returned, the engine lives on) or by the end of the process.
PersistWriteInterrupted ==
  \E how \in {"Err", "crash"}, part \in {0, 1} :
    /\ pc = "idle"
    /\ store.buffer_ids # <<>>
    /\ LET index_file == PersistIndexFile(store)
           data_file == PersistDataFile(store)
       IN files' = MapInsert(MapInsert(files, "index_tmp",
                                       SubSeq(index_file, 1, part * (Len(index_file) \div 2))),
                             "data_tmp", SubSeq(data_file, 1, part * (Len(data_file) \div 2)))
    /\ originals' = [index |-> files["index"], data |-> files["data"]]
    /\ pc' = IF how = "crash" THEN "crashed" ELSE "idle"
    /\ StoreStep("persist", <<Len(store.buffer_ids)>>, how)
    /\ UNCHANGED store

\* std::fs::rename(&temp_index_path, index_path)
PersistRenameIndex ==
  /\ pc = "tmp_written"
  /\ files' = RemoveFile(MapInsert(files, "index", files["index_tmp"]), "index_tmp")
  /\ pc' = "index_renamed"
  /\ StoreStep("persist", <<Len(store.buffer_ids)>>, "running")
  /\ UNCHANGED <<store, originals>>

\* std::fs::rename(&temp_data_path, data_path), the buffers are cleared and
\* the engine is replaced by one opened on the new files.
PersistRenameData ==
  /\ pc = "index_renamed"
  /\ files' = RemoveFile(MapInsert(files, "data", files["data_tmp"]), "data_tmp")
  /\ store' = StorageEngineNew(files'["index"], files'["data"])
  /\ pc' = "idle"
  /\ StoreStep("persist", <<Len(store.buffer_ids)>>, "Ok")
  /\ UNCHANGED originals

\* The second rename succeeds and the buffers are cleared, then Self::new fails
\* (File::open or Mmap::map returns an error): persist returns Err and *self
\* keeps the maps it had.
PersistReopenFailed ==
  /\ pc = "index_renamed"
  /\ files' = RemoveFile(MapInsert(files, "data", files["data_tmp"]), "data_tmp")
  /\ store' = [store EXCEPT !.buffer_ids = <<>>, !.buffer_simhashes = <<>>,
                            !.buffer_texts = <<>>, !.buffer_node_types = <<>>,
                            !.buffer_chaos_fingerprints = <<>>,
                            !.buffer_chaos_vectors = <<>>]
  /\ pc' = "idle"
  /\ StoreStep("persist", <<Len(store.buffer_ids), "reopen">>, "Err")
  /\ UNCHANGED originals

\* The rename about to run fails (persist returns Err), or the process ends
\* before it runs.
PersistRenameInterrupted ==
  \E how \in {"Err", "crash"} :
    /\ pc \in {"tmp_written", "index_renamed"}
    /\ pc' = IF how = "crash" THEN "crashed" ELSE "idle"
    /\ StoreStep("persist", <<Len(store.buffer_ids)>>, how)
    /\ UNCHANGED <<files, store, originals>>

ScanSimd ==
  \E query_fp \in Queries :
    /\ pc = "idle"
    /\ StoreStep("scan_simd", <<query_fp>>, ScanSimdFn(store, query_fp))
    /\ UNCHANGED store_vars

\* insert_node of one of the hot nodes of the hybrid search.
InsertHybridNode ==
  \E c \in HybridInsertCalls :
    /\ pc = "idle"
    /\ NodeCount(store) < InitNodes + MaxInserts
    /\ store' = InsertNodeFn(store, c[1], c[2], c[3], c[4], c[5], c[6])
    /\ StoreStep("insert_node", c, None)
    /\ UNCHANGED <<files, pc, originals>>

SearchHybrid ==
  \E query_fp \in HybridQueryFingerprints, query_vec \in HybridQueryVectors,
     limits \in HybridLimits :
    \E ret \in SearchHybridFn(store, query_fp, query_vec, limits[1], limits[2]) :
      /\ pc = "idle"
      /\ StoreStep("search_hybrid", <<query_fp, query_vec, limits[1], limits[2]>>, ret)
      /\ UNCHANGED store_vars

NextHybrid == InsertHybridNode \/ SearchHybrid

SpecHybrid == InitStore /\ [][NextHybrid]_vars

\* The storage engine: hot inserts, persist step by step, scans.
\* scan_simd_filtered restricted to one node type: 0 = Ontology, 1 = Event.
TargetTypes == {0, 1}

ScanSimdFilteredStep ==
  \E query_fp \in Queries, tt \in TargetTypes :
    /\ pc = "idle"
    /\ StoreStep("scan_simd_filtered", <<query_fp, Some(tt)>>,
                 ScanSimdFiltered(store, query_fp, Some(tt)))
    /\ UNCHANGED store_vars

NextStore ==
  \/ InsertNode
  \/ PersistEmpty
  \/ PersistWriteTmp
  \/ PersistWriteInterrupted
  \/ PersistRenameIndex
  \/ PersistRenameData
  \/ PersistRenameInterrupted
  \/ ScanSimd

SpecStore == InitStore /\ [][NextStore]_vars

NextFiltered ==
  \/ InsertNode
  \/ PersistEmpty
  \/ PersistWriteTmp
  \/ PersistWriteInterrupted
  \/ PersistRenameIndex
  \/ PersistRenameData
  \/ PersistRenameInterrupted
  \/ ScanSimdFilteredStep

SpecFiltered == InitStore /\ [][NextFiltered]_vars

\* insert_node and persist with every way persist can fail, the reopening of
\* the maps after the second rename included.
NextPersist ==
  \/ InsertNode
  \/ PersistEmpty
  \/ PersistWriteTmp
  \/ PersistWriteInterrupted
  \/ PersistRenameIndex
  \/ PersistRenameData
  \/ PersistReopenFailed
  \/ PersistRenameInterrupted

SpecPersist == InitStore /\ [][NextPersist]_vars

\* ================================================================= claims

\* The uint16 a weight num/WDen is stored as: weight * 65535 truncated, 0 for a
\* negative or NaN weight, 65535 from weight 1 on.
QuantizedWeight(w) ==
  IF w.nan \/ w.num <= 0 THEN 0
  ELSE IF w.num >= WDen THEN U16Max
  ELSE (w.num * U16Max) \div WDen

\* C1: for every ontology edge src -> tgt of type Equality the ontology graph
\* holds an edge tgt -> src of type Equality with the same strength.
C1_EqualityEdgesMirrored ==
  \A src \in DOMAIN ontology_graph : \A i \in 1..Len(ontology_graph[src]) :
    LET ed == ontology_graph[src][i] IN
    ed.edge_type = EDGE_EQUALITY =>
      /\ ed.target_node_id \in DOMAIN ontology_graph
      /\ \E j \in 1..Len(ontology_graph[ed.target_node_id]) :
           LET r == ontology_graph[ed.target_node_id][j] IN
           /\ r.target_node_id = src
           /\ r.edge_type = EDGE_EQUALITY
           /\ r.connection_strength = ed.connection_strength

\* C4: an add_edge(s,t,w) step leaves exactly one edge s -> t; its strength is
\* quantize(w) if the edge is new and max(old, quantize(w)) otherwise (never
\* lower than before); two add_edge calls in a row on a fresh edge leave
\* max(quantize(w1), quantize(w2)).
C4_AddEdgeKeepsMax ==
  [][last'.op = "add_edge" =>
       LET s == last'.args[1]
           t == last'.args[2]
           q == QuantizedWeight(last'.args[3])
       IN /\ Cardinality(EdgesTo(graph', s, t)) = 1
          /\ StrengthOf(graph', s, t) =
               IF EdgesTo(graph, s, t) = {} THEN q
               ELSE Max(StrengthOf(graph, s, t), q)
          /\ (/\ last.op = "add_edge"
              /\ last.args[1] = s /\ last.args[2] = t
              /\ last.old = None)
             => StrengthOf(graph', s, t) = Max(QuantizedWeight(last.args[3]), q)
  ]_vars

\* C4 witness: add_edge(s,t,w1) created the edge, add_edge(s,t,w2) with a
\* lower weight followed, and the edge kept the higher strength.
C4_Witness ==
  /\ last.op = "add_edge"
  /\ last.prev[1] = "add_edge"
  /\ last.prev[2][1] = last.args[1] /\ last.prev[2][2] = last.args[2]
  /\ QuantizedWeight(last.args[3]) > 0
  /\ QuantizedWeight(last.prev[2][3]) > QuantizedWeight(last.args[3])
  /\ StrengthOf(graph, last.args[1], last.args[2]) = QuantizedWeight(last.prev[2][3])

\* The ids the source and target of the last maintain_ontology stand for.
LastSrc(k2n) == ResolveIn(k2n, last.args[1])[1]
LastTgt(k2n) == ResolveIn(k2n, last.args[2])[1]

\* The claimed update max(old + weight*32767.5, weight*65535), truncated to
\* an integer and kept within 0..65535, for the weight num/WDen.
ClaimedStrength(old, w) ==
  Max(0, Min(U16Max, Max((2 * WDen * old + w.num * U16Max) \div (2 * WDen),
                         (w.num * U16Max) \div WDen)))

\* C5 as claimed: an existing edge src -> tgt of strength old gets strength
\* max(old + weight*32767.5, weight*65535) saturated at 65535, and for
\* Equality and Inhibition the reverse edge is updated by the same rule.
C5_ClaimedHebbianUpdate ==
  [][last'.op = "maintain_ontology" =>
       LET s == ResolveIn(keyword_to_node', last'.args[1])[1]
           t == ResolveIn(keyword_to_node', last'.args[2])[1]
           w == last'.args[4]
           ty == RelationEdgeType(last'.args[3])
       IN EdgesTo(ontology_graph, s, t) # {} =>
            /\ StrengthOf(ontology_graph', s, t) =
                 ClaimedStrength(StrengthOf(ontology_graph, s, t), w)
            /\ ty \in {EDGE_EQUALITY, EDGE_INHIBITION} =>
                 StrengthOf(ontology_graph', t, s) =
                   ClaimedStrength(IF EdgesTo(ontology_graph, t, s) = {} THEN 0
                                   ELSE StrengthOf(ontology_graph, t, s), w)
  ]_vars

\* The rule on uint16 values: q is the stored form of the weight.
RuleU16(old, q) == Min(U16Max, Max(old + q \div 2, q))

\* C5 amended: with q = weight*65535 truncated and saturated to uint16 (0 for
\* a negative weight), an existing edge src -> tgt of strength old between
\* different ids gets min(65535, max(old + q div 2, q)); for Equality and
\* Inhibition the reverse edge gets the same rule from its own old strength,
\* or q if it did not exist; a self-edge (src and tgt resolve to one id)
\* under Equality or Inhibition is updated twice by the rule.
C5_HebbianUpdate ==
  [][last'.op = "maintain_ontology" =>
       LET s == ResolveIn(keyword_to_node', last'.args[1])[1]
           t == ResolveIn(keyword_to_node', last'.args[2])[1]
           q == QuantizedWeight(last'.args[4])
           ty == RelationEdgeType(last'.args[3])
           sym == ty \in {EDGE_EQUALITY, EDGE_INHIBITION}
       IN EdgesTo(ontology_graph, s, t) # {} =>
            LET old == StrengthOf(ontology_graph, s, t) IN
            IF s = t
            THEN StrengthOf(ontology_graph', s, t) =
                   IF sym THEN RuleU16(RuleU16(old, q), q) ELSE RuleU16(old, q)
            ELSE /\ StrengthOf(ontology_graph', s, t) = RuleU16(old, q)
                 /\ sym =>
                      StrengthOf(ontology_graph', t, s) =
                        IF EdgesTo(ontology_graph, t, s) = {} THEN q
                        ELSE RuleU16(StrengthOf(ontology_graph, t, s), q)
  ]_vars

\* C5 witness: an Equality call on an existing edge between different ids
\* whose sum old + q div 2 exceeds 65535 left the edge at 65535.
C5_Witness ==
  /\ last.op = "maintain_ontology"
  /\ last.old # None
  /\ RelationEdgeType(last.args[3]) = EDGE_EQUALITY
  /\ LastSrc(keyword_to_node) # LastTgt(keyword_to_node)
  /\ last.old[1] < U16Max
  /\ last.old[1] + QuantizedWeight(last.args[4]) \div 2 > U16Max
  /\ StrengthOf(ontology_graph, LastSrc(keyword_to_node), LastTgt(keyword_to_node))
       = U16Max

\* Within every adjacency list of g the target ids are pairwise different.
UniqueTargetsIn(g) ==
  \A k \in DOMAIN g : \A i, j \in 1..Len(g[k]) :
    i # j => g[k][i].target_node_id # g[k][j].target_node_id

SameListLengths(g, h) ==
  /\ DOMAIN g = DOMAIN h
  /\ \A k \in DOMAIN g : Len(g[k]) = Len(h[k])

\* C6: after every add_edge and maintain_ontology each adjacency list of the
\* memory graph and of the ontology graph holds at most one edge per target,
\* and a maintain_ontology call repeated with the same arguments leaves the
\* length of every adjacency list unchanged.
C6_UniqueTargets ==
  [][/\ UniqueTargetsIn(graph')
     /\ UniqueTargetsIn(ontology_graph')
     /\ (/\ last'.op = "maintain_ontology"
         /\ last.op = "maintain_ontology"
         /\ last'.args = last.args)
        => /\ SameListLengths(ontology_graph, ontology_graph')
           /\ SameListLengths(graph, graph')
  ]_vars

\* C6 witness: the same Equality call was made twice in a row, between two
\* different features, and the memory graph holds an edge too.
C6_Witness ==
  /\ last.op = "maintain_ontology"
  /\ last.prev = <<"maintain_ontology", last.args>>
  /\ RelationEdgeType(last.args[3]) = EDGE_EQUALITY
  /\ LastSrc(keyword_to_node) # LastTgt(keyword_to_node)
  /\ EdgeCount(ontology_graph) = 2
  /\ EdgeCount(graph) > 0

\* C7 as claimed: apply_global_decay_and_pruning(1.0, 0) returns 0 and leaves
\* the ontology graph as it was.
C7_ClaimedNoOp ==
  [][(/\ last'.op = "apply_global_decay_and_pruning"
      /\ last'.args = <<W(8), 0>>)
     => /\ last'.ret = 0
        /\ ontology_graph' = ontology_graph
  ]_vars

ZeroStrength(ed) == ed.connection_strength = 0
PositiveStrength(ed) == ed.connection_strength > 0

RECURSIVE CountZero(_, _)
CountZero(g, keys) ==
  IF keys = {} THEN 0
  ELSE LET k == CHOOSE x \in keys : TRUE
       IN Len(SelectSeq(g[k], ZeroStrength)) + CountZero(g, keys \ {k})

\* C7 amended: apply_global_decay_and_pruning(1.0, 0) removes exactly the
\* edges of strength 0 and returns their number; every edge of strength > 0
\* stays, in order, with its target, strength and type; nothing else changes.
C7_RemovesOnlyZeroEdges ==
  [][(/\ last'.op = "apply_global_decay_and_pruning"
      /\ last'.args = <<W(8), 0>>)
     => /\ last'.ret = CountZero(ontology_graph, DOMAIN ontology_graph)
        /\ DOMAIN ontology_graph' = DOMAIN ontology_graph
        /\ \A k \in DOMAIN ontology_graph :
             ontology_graph'[k] = SelectSeq(ontology_graph[k], PositiveStrength)
        /\ UNCHANGED <<nodes, feature_keywords, keyword_to_node, graph>>
  ]_vars

\* C7 witness: the call (1.0, 0) pruned an edge and left another in place.
C7_Witness ==
  /\ last.op = "apply_global_decay_and_pruning"
  /\ last.args = <<W(8), 0>>
  /\ last.ret > 0
  /\ EdgeCount(ontology_graph) > 0

\* C8: after apply_global_decay_and_pruning(decay_rate, threshold) every
\* remaining ontology edge is stronger than threshold, every edge whose
\* strength times decay_rate (truncated) was <= threshold is gone, the result
\* is the number of ontology edges before minus after, and the memory graph is
\* unchanged.
C8_PruneBelowThreshold ==
  [][last'.op = "apply_global_decay_and_pruning" =>
       LET rate == last'.args[1]
           threshold == last'.args[2]
       IN /\ \A k \in DOMAIN ontology_graph' : \A i \in 1..Len(ontology_graph'[k]) :
               ontology_graph'[k][i].connection_strength > threshold
          /\ \A k \in DOMAIN ontology_graph : \A i \in 1..Len(ontology_graph[k]) :
               LET ed == ontology_graph[k][i] IN
               (ed.connection_strength * rate.num) \div WDen <= threshold
                 => EdgesTo(ontology_graph', k, ed.target_node_id) = {}
          /\ last'.ret = EdgeCount(ontology_graph) - EdgeCount(ontology_graph')
          /\ graph' = graph
  ]_vars

\* C8 witness: a decay by 0.5 with threshold 20000 pruned ontology edges
\* while the memory graph holds an edge.
C8_Witness ==
  /\ last.op = "apply_global_decay_and_pruning"
  /\ last.args = <<W(4), 20000>>
  /\ last.ret > 0
  /\ EdgeCount(graph) > 0

Range(seq) == {seq[i] : i \in 1..Len(seq)}

\* Every event is listed under its temporal hash and under each of its
\* emotion bits.
EventsAreIndexed ==
  \A id \in DOMAIN nodes :
    nodes[id].node_type = Event =>
      LET fp == nodes[id].fingerprint IN
      /\ fp.temporal # 0 =>
           /\ fp.temporal \in DOMAIN temporal_index
           /\ id \in Range(temporal_index[fp.temporal])
      /\ \A b \in 0..7 :
           BitSet(fp.affective, b) =>
             /\ 2 ^ b \in DOMAIN affective_index
             /\ id \in Range(affective_index[2 ^ b])

\* Every id a bucket lists is an event with that temporal hash / emotion bit.
BucketsListEvents ==
  /\ \A h \in DOMAIN temporal_index : \A id \in Range(temporal_index[h]) :
       /\ id \in DOMAIN nodes
       /\ nodes[id].node_type = Event
       /\ nodes[id].fingerprint.temporal = h
  /\ \A e \in DOMAIN affective_index : \A id \in Range(affective_index[e]) :
       /\ id \in DOMAIN nodes
       /\ nodes[id].node_type = Event
       /\ \E b \in 0..7 : e = 2 ^ b /\ BitSet(nodes[id].fingerprint.affective, b)

\* C9: immediately after compile(), every Event node with a non-zero temporal
\* zone is in temporal_index under that 16-bit hash and in the affective
\* bucket of each emotion bit of its affective zone, and every id listed in a
\* bucket is an Event node whose fingerprint has that hash / that bit.
C9_IndexesMatchEvents ==
  last.op = "compile" => EventsAreIndexed /\ BucketsListEvents

\* C9 witness: after compile two events of different dates share a temporal
\* bucket, an affective bucket is filled, and the call before compile had
\* replaced a node that the indexes listed.
C9_Witness ==
  /\ last.op = "compile"
  /\ \E h \in DOMAIN temporal_index : Cardinality(Range(temporal_index[h])) = 2
  /\ EMOTION_SADNESS \in DOMAIN affective_index
  /\ \E id \in DOMAIN nodes :
       /\ nodes[id].node_type = Event
       /\ nodes[id].fingerprint.temporal # 0

\* persist has stopped before its second rename completed: it returned Err,
\* or the process ended.
PersistInterrupted ==
  \/ pc = "crashed"
  \/ pc = "idle" /\ last.op = "persist" /\ last.ret = "Err" /\ Len(last.args) = 1

\* C2: if persist is interrupted or fails at any point after it starts writing
\* the tmp files and before the second rename has completed (also between the
\* two renames), the index file and the payload file are both still the files
\* that were there when persist started.
C2_PersistCrashSafe ==
  PersistInterrupted =>
    /\ files["index"] = originals.index
    /\ files["data"] = originals.data

\* Row idx reads the same in s and t: id, fingerprint, node type, text, chaos
\* fingerprint and chaos vector.
SameRow(s, t, idx) ==
  /\ GetId(s, idx) = GetId(t, idx)
  /\ GetSimhash(s, idx) = GetSimhash(t, idx)
  /\ GetNodeType(s, idx) = GetNodeType(t, idx)
  /\ GetNodeTextByIdx(s, idx) = GetNodeTextByIdx(t, idx)
  /\ GetChaosFingerprintByIdx(s, idx) = GetChaosFingerprintByIdx(t, idx)
  /\ GetChaosVectorByIdx(s, idx) = GetChaosVectorByIdx(t, idx)

\* C3: when persist succeeds (the store is reopened on the new files),
\* node_count() is what it was before, the hot buffer is empty, and every row
\* 0 <= i < node_count reads the same id, 64-bit fingerprint, node type, text,
\* chaos fingerprint and chaos vector as before persist.
C3_PersistRoundTrip ==
  [][(last'.op = "persist" /\ last'.ret = "Ok") =>
       /\ NodeCount(store') = NodeCount(store)
       /\ store'.buffer_ids = <<>>
       /\ store'.buffer_simhashes = <<>>
       /\ store'.buffer_texts = <<>>
       /\ store'.buffer_node_types = <<>>
       /\ store'.buffer_chaos_fingerprints = <<>>
       /\ store'.buffer_chaos_vectors = <<>>
       /\ \A idx \in 0..(NodeCount(store) - 1) : SameRow(store, store', idx)
  ]_vars

\* C3 witness: a persist of two buffered rows succeeded; the rows on disk now
\* include one with a negative id and an empty text and one with a text.
C3_Witness ==
  /\ last.op = "persist"
  /\ last.ret = "Ok"
  /\ last.args = <<2>>
  /\ DiskCount(store) = InitNodes + 2
  /\ \E idx \in 0..(DiskCount(store) - 1) :
       GetId(store, idx) = -7 /\ GetNodeTextByIdx(store, idx) = <<>>
  /\ \E idx \in 0..(DiskCount(store) - 1) : GetNodeTextByIdx(store, idx) = <<104, 105>>

\* The scalar reference: over the rows disk ++ buffer, the highest score and
\* the first row that has it; (0, -1.0) when there is no row.
ScalarScan(rows, query_fp) ==
  IF rows = <<>> THEN [max_idx |-> 0, max_score |-> -64]
  ELSE LET top == CHOOSE sc \in {Score64(rows[i], query_fp) : i \in 1..Len(rows)} :
                    \A i \in 1..Len(rows) : Score64(rows[i], query_fp) <= sc
           first == CHOOSE i \in 1..Len(rows) :
                      /\ Score64(rows[i], query_fp) = top
                      /\ \A j \in 1..(i - 1) : Score64(rows[j], query_fp) # top
       IN [max_idx |-> first - 1, max_score |-> top]

\* C10: scan_simd returns the (index, score) of a sequential scalar scan over
\* the disk rows followed by the hot-buffer rows that keeps the first maximum
\* of 1 - popcount(xor)/64; a buffered row whose fingerprint is the query, with
\* no earlier row equal to the query, is found at index N + i with score 1.0.
C10_ScanMatchesScalar ==
  last.op = "scan_simd" =>
    LET query_fp == last.args[1]
        rows == store.simhashes \o store.buffer_simhashes
    IN /\ last.ret = ScalarScan(rows, query_fp)
       /\ \A i \in 0..(Len(store.buffer_simhashes) - 1) :
            (/\ store.buffer_simhashes[i + 1] = query_fp
             /\ \A j \in 1..(DiskCount(store) + i) : rows[j] # query_fp)
            => last.ret = [max_idx |-> DiskCount(store) + i, max_score |-> 64]

\* C10 witness: with at least four rows on disk, a scan found its query in
\* the hot buffer, at an index past the disk rows, with score 1.0.
C10_Witness ==
  /\ last.op = "scan_simd"
  /\ DiskCount(store) >= 4
  /\ last.ret.max_idx >= DiskCount(store)
  /\ last.ret.max_score = 64

\* C15: for a keyword whose lowercased form is a stopword, add_feature leaves
\* the whole engine unchanged (nodes, vocabulary, keyword list, graphs and
\* indexes), and get_or_create_feature returns -1 and changes nothing either.
C15_StopwordsCreateNothing ==
  [][(last'.op = "add_feature" /\ Lower(last'.args[2]) \in Stopwords
        => UNCHANGED <<engine_vars, index_vars>>)
     /\ (last'.op = "get_or_create_feature" /\ Lower(last'.args[1]) \in Stopwords
        => last'.ret = StopId /\ UNCHANGED <<engine_vars, index_vars>>)
  ]_vars

\* C15 witness: on an engine that holds a feature, add_feature and then
\* get_or_create_feature were called with a capitalised stopword; the
\* sentinel came back and no node or vocabulary entry carries the stopword.
C15_Witness ==
  /\ last.op = "get_or_create_feature"
  /\ last.args[1] # Lower(last.args[1])
  /\ Lower(last.args[1]) \in Stopwords
  /\ last.prev[1] = "add_feature"
  /\ Lower(last.prev[2][2]) \in Stopwords
  /\ last.ret = StopId
  /\ nodes # <<>>
  /\ Lower(last.args[1]) \notin DOMAIN keyword_to_node
  /\ \A id \in DOMAIN nodes : nodes[id].content \notin Stopwords

\* C16: execute_maintenance with an action that is neither upsert nor replace
\* (compared in lower case) returns no context and leaves nodes, keyword
\* list, vocabulary, memory graph and ontology graph as they were; with
\* action upsert it returns no context and leaves the engine as
\* maintain_ontology on the same arguments leaves it.
C16_UnknownActionNoMutation ==
  [][last'.op = "execute_maintenance" =>
       LET a == Lower(last'.args[1])
           after == MaintainOntologyFn(Eng, last'.args[2], last'.args[3],
                                       last'.args[4], last'.args[5])
       IN /\ a \notin {"upsert", "replace"} =>
               last'.ret = None /\ UNCHANGED engine_vars
          /\ a = "upsert" =>
               /\ last'.ret = None
               /\ nodes' = after.nodes
               /\ feature_keywords' = after.feature_keywords
               /\ keyword_to_node' = after.keyword_to_node
               /\ graph' = after.graph
               /\ ontology_graph' = after.ontology_graph
  ]_vars

\* C16 witness: on an engine whose ontology graph holds edges, an unknown
\* action came after an upsert written in capitals that had created a feature.
C16_Witness ==
  /\ last.op = "execute_maintenance"
  /\ Lower(last.args[1]) \notin {"upsert", "replace"}
  /\ last.ret = None
  /\ last.prev[1] = "execute_maintenance"
  /\ last.prev[2][1] # "upsert" /\ Lower(last.prev[2][1]) = "upsert"
  /\ EdgeCount(ontology_graph) > 0
  /\ Lower(last.args[3]) \notin DOMAIN keyword_to_node

\* The target ids of an adjacency list.
TargetIds(edges) == {edges[i].target_node_id : i \in 1..Len(edges)}

\* C17: execute_maintenance("replace", src, tgt, ...) applies maintain_ontology
\* and returns a context with exactly one line for every ontology edge that
\* leaves src in the updated graph, in the order of the list; those edges are
\* the edge to the new target and every edge that left src before the call.
C17_ReplaceContextListsEdges ==
  [][last'.op = "execute_maintenance" /\ Lower(last'.args[1]) = "replace" =>
       LET src_id == ResolveIn(keyword_to_node', last'.args[2])[1]
           tgt_id == ResolveIn(keyword_to_node', last'.args[3])[1]
           edges == ontology_graph'[src_id]
           before == IF ResolveIn(keyword_to_node, last'.args[2]) = None
                       \/ src_id \notin DOMAIN ontology_graph
                     THEN {} ELSE TargetIds(ontology_graph[src_id])
       IN /\ TargetIds(edges) = before \cup {tgt_id}
          /\ last'.ret # None
          /\ Len(last'.ret[1]) = Len(edges)
          /\ \A i \in 1..Len(edges) :
               /\ edges[i].target_node_id \in DOMAIN nodes'
               /\ last'.ret[1][i].target = nodes'[edges[i].target_node_id].content
               /\ last'.ret[1][i].strength = edges[i].connection_strength
  ]_vars

\* The ids the vocabulary gives to the listed targets it knows.
ListedIds(k2n, targets) ==
  {k2n[w] : w \in {Lower(targets[i]) : i \in 1..Len(targets)} \cap DOMAIN k2n}

\* C18: apply_arbitration(src, targets) removes from the adjacency list of src
\* exactly the edges to listed targets the vocabulary knows; the other edges
\* of src keep target, strength, type and order; every other adjacency list,
\* the memory graph, the vocabulary and the node table stay as they were. A
\* maintain_ontology(src, t, ...) that follows for a removed target t adds the
\* edge again, with the strength of a new edge.
C18_ArbitrationRemovesListed ==
  [][/\ last'.op = "apply_arbitration" =>
          LET source_lower == Lower(last'.args[1])
              remove == ListedIds(keyword_to_node, last'.args[2])
              Other(ed) == ed.target_node_id \notin remove
          IN /\ UNCHANGED <<nodes, feature_keywords, keyword_to_node, graph>>
             /\ DOMAIN ontology_graph' = DOMAIN ontology_graph
             /\ \A k \in DOMAIN ontology_graph :
                  ontology_graph'[k] =
                    IF source_lower \in DOMAIN keyword_to_node
                         /\ k = keyword_to_node[source_lower]
                    THEN SelectSeq(ontology_graph[k], Other)
                    ELSE ontology_graph[k]
     /\ (/\ last.op = "apply_arbitration"
         /\ last'.op = "maintain_ontology"
         /\ Lower(last'.args[1]) = Lower(last.args[1])
         /\ Lower(last'.args[1]) \in DOMAIN keyword_to_node
         /\ Lower(last'.args[2]) \in DOMAIN keyword_to_node
         /\ keyword_to_node[Lower(last'.args[2])]
              \in ListedIds(keyword_to_node, last.args[2]))
        => LET s == keyword_to_node[Lower(last'.args[1])]
               t == keyword_to_node[Lower(last'.args[2])]
           IN /\ EdgesTo(ontology_graph, s, t) = {}
              /\ EdgesTo(ontology_graph', s, t) # {}
              /\ s # t => StrengthOf(ontology_graph', s, t)
                            = QuantizedWeight(last'.args[4])
  ]_vars

\* C18 witness: an Equality edge Pero <-> blue was stored, apply_arbitration
\* removed Pero -> blue (the reverse edge is still there), and a
\* representation call on the same pair added Pero -> blue again.
C18_Witness ==
  /\ last.op = "maintain_ontology"
  /\ last.prev[1] = "apply_arbitration"
  /\ Lower(last.prev[2][1]) = Lower(last.args[1])
  /\ last.old = None
  /\ RelationEdgeType(last.args[3]) = EDGE_REPRESENTATION
  /\ LastSrc(keyword_to_node) # LastTgt(keyword_to_node)
  /\ EdgesTo(ontology_graph, LastTgt(keyword_to_node), LastSrc(keyword_to_node)) # {}
  /\ LET rev == ontology_graph[LastTgt(keyword_to_node)]
     IN rev[FindEdge(rev, LastSrc(keyword_to_node))].edge_type = EDGE_EQUALITY
  /\ EdgesTo(ontology_graph, LastSrc(keyword_to_node), LastTgt(keyword_to_node)) # {}
  /\ StrengthOf(ontology_graph, LastSrc(keyword_to_node), LastTgt(keyword_to_node))
       = QuantizedWeight(last.args[4])

\* The phrases of the relative-time table a lowercased query contains, without
\* those that are part of a longer phrase it contains (前天 inside 大前天, now
\* inside just now): each with the seconds its row subtracts.
ContainedPhrases(query_lower) ==
  LET all == UNION {{[phrase |-> t, offset |-> RelativeTimeRules[i].offset] :
                       t \in RelativeTimeRules[i].triggers} :
                     i \in 1..Len(RelativeTimeRules)}
      hit == {r \in all : Contains(query_lower, r.phrase)}
  IN {r \in hit : \A r2 \in hit : r2.phrase = r.phrase \/ ~Contains(r2.phrase, r.phrase)}

\* C13: for ref_time > 0 compute_for_query resolves a query that contains a
\* phrase of the relative-time table to ref_time minus the seconds of that
\* row, so the temporal zone of the fingerprint is the temporal hash of that
\* timestamp (大前天: ref_time - 259200; just now: ref_time - 60); for
\* ref_time = 0 no relative rule is applied (the temporal zone is empty unless
\* the query names a year).
C13_RelativeTimeResolved ==
  [][last'.op = "compute_for_query" =>
       LET query_lower == ToLowercase(last'.args[1])
           ref_time == last'.args[2]
       IN /\ ref_time > 0 =>
               \A r \in ContainedPhrases(query_lower) :
                 ref_time > r.offset =>
                   last'.ret.temporal = ComputeTemporalHash(ref_time - r.offset)
          /\ (ref_time = 0
                /\ \A i \in 1..Len(AbsoluteYears) :
                     ~Contains(query_lower, AbsoluteYears[i].year))
               => last'.ret.temporal = 0
  ]_vars

\* The ids of the list a retrieve call returned.
ReturnedIds == {last.ret[i][1] : i \in 1..Len(last.ret)}

\* The feature keywords the automaton finds in a lowercased query.
MatchedKeywords(query_lower) ==
  IF ac_matcher = None THEN <<>> ELSE FindIter(ac_matcher[1], query_lower, 0)

\* C14: relative-time recall.  After retrieve(query, ref_time, 0.0) with
\* ref_time > 0, every event whose extracted timestamp is ref_time minus the
\* seconds of a relative-time phrase of the query is in the returned list,
\* compiled or not, keyword or not; and when the query matches no feature
\* keyword and carries no emotion, an event whose temporal hash differs from
\* that of every such timestamp is not returned.
C14_RelativeTimeRecall ==
  (last.op = "retrieve" /\ last.args[3] = 0 /\ last.args[2] > 0) =>
    LET query_lower == ToLowercase(last.args[1])
        ref_time == last.args[2]
        resolved == {ref_time - r.offset :
                       r \in {p \in ContainedPhrases(query_lower) : ref_time > p.offset}}
        events == {id \in DOMAIN nodes : nodes[id].node_type = Event}
    IN /\ \A id \in events :
            nodes[id].timestamp \in resolved => id \in ReturnedIds
       /\ (MatchedKeywords(query_lower) = <<>> /\ ExtractEmotionOf(query_lower) = 0) =>
            \A id \in events :
              (\A t \in resolved :
                 nodes[id].fingerprint.temporal # ComputeTemporalHash(t))
                => id \notin ReturnedIds

\* C11: with no embedding model, retrieve(query, ref_time, chaos_level) with
\* chaos_level > 0 returns what retrieve(query, ref_time, 0.0) returns on the
\* same engine, ids and scores: the list returned is one the rational call may
\* return, and the two calls have the same possible lists (a list depends on
\* the order the hash maps yield entries of equal score in).
C11_NoEmbedderChaosIsNoOp ==
  (last.op = "retrieve" /\ last.args[3] > 0 /\ embedding_model = None) =>
    /\ last.ret \in RetrieveOutcomes(Self, last.args[1], last.args[2], 0)
    /\ RetrieveOutcomes(Self, last.args[1], last.args[2], last.args[3])
         = RetrieveOutcomes(Self, last.args[1], last.args[2], 0)

\* test_retrieval_without_vector_model: the query "Rust 编程" at chaos level
\* 0.5 with no model finds event 1 by its keyword, with a positive score.
C11_Witness ==
  /\ last.op = "retrieve"
  /\ last.args = <<QueryRust, 0, Fx(5, 10)>>
  /\ embedding_model = None
  /\ \E i \in 1..Len(last.ret) : last.ret[i][1] = 1 /\ last.ret[i][2] > 0

\* The score of an id in the list a retrieve call returned, 0 when absent
\* (as the test reads it).
ScoreOfId(id) ==
  IF id \in ReturnedIds
  THEN last.ret[CHOOSE i \in 1..Len(last.ret) : last.ret[i][1] = id][2]
  ELSE 0

\* The inhibited event of the typed-edge scenario has no positive energy: it
\* is absent from the list or its score is below 0.01.
InhibitedEventSilent == 2003 \notin ReturnedIds \/ ScoreOfId(2003) < Fx(1, 100)

\* C12 as claimed: in the typed-edge scenario (Representation 0.9 to
\* TargetNormal, Equality 1.0 to TargetEqual, Inhibition 0.8 to TargetInhibit,
\* each target linked with weight 1.0 to its event, compiled), retrieve on the
\* source keyword scores EventEqual above EventNormal and gives the inhibited
\* event nothing, whatever the events say.
C12_TypedEdgesOrder ==
  last.op = "retrieve" =>
    /\ ScoreOfId(2002) > ScoreOfId(2001)
    /\ InhibitedEventSilent

\* The semantic bits in which a fingerprint differs from that of the query.
QueryDistance(id) ==
  HammingDistance(ComputeForQuery(last.args[1], last.args[2]).semantic,
                  nodes[id].fingerprint.semantic)

\* EventNormal and EventEqual carry the same timestamp and emotion flags, and
\* the summary of EventNormal is at most 5 semantic bits (of 32) nearer to the
\* query than that of EventEqual.
ComparableEvents ==
  /\ nodes[2001].timestamp = nodes[2002].timestamp
  /\ nodes[2001].fingerprint.affective = nodes[2002].fingerprint.affective
  /\ QueryDistance(2002) <= QueryDistance(2001) + 5

\* C12, amended: in the typed-edge scenario retrieve on the source keyword
\* gives the inhibited event nothing, and scores EventEqual above EventNormal
\* when the two events are comparable: the refinement adds 0.6 times the
\* semantic similarity of each summary to the query, which outweighs the
\* diffused energy (0.85 against 0.72675, times a decay of 0.8 at least) once
\* EventNormal is 6 bits nearer.
C12_TypedEdgesOrderComparable ==
  last.op = "retrieve" =>
    /\ ComparableEvents => ScoreOfId(2002) > ScoreOfId(2001)
    /\ InhibitedEventSilent

\* The scenario of the test: EventEqual scores 1.1112, EventNormal 0.9749 and
\* EventInhibit is absent.
C12_Witness ==
  /\ last.op = "retrieve"
  /\ nodes[2001].content = "Event Normal Content"
  /\ nodes[2002].content = "Event Equal Content"
  /\ ComparableEvents
  /\ ScoreOfId(2002) > ScoreOfId(2001)
  /\ ScoreOfId(2001) > 0
  /\ 2003 \notin ReturnedIds

\* C19: the list retrieve returns holds only ids of Event nodes, each id at
\* most once, in order of non-increasing score, on the rational path and on
\* the chaos-fusion path.
C19_ResultsAreSortedEvents ==
  last.op = "retrieve" =>
    /\ \A i \in 1..Len(last.ret) : IsEvent(Self, last.ret[i][1])
    /\ \A i, j \in 1..Len(last.ret) : i # j => last.ret[i][1] # last.ret[j][1]
    /\ \A i \in 1..(Len(last.ret) - 1) : last.ret[i][2] >= last.ret[i + 1][2]

\* Rows of the buffer (hot) within 8 bits of the query fingerprint of the last
\* search_hybrid call, rows of the disk files (cold) at 64 bits or more, and
\* the place of a row in the returned list (0 when it is not returned).
NearHotRows ==
  {r \in DiskCount(store)..(NodeCount(store) - 1) :
     ChaosDistance(GetChaosFingerprintByIdx(store, r), last.args[1]) <= 8}
FarColdRows ==
  {r \in 0..(DiskCount(store) - 1) :
     ChaosDistance(GetChaosFingerprintByIdx(store, r), last.args[1]) >= 64}
PlaceOf(r) ==
  IF \E i \in 1..Len(last.ret) : last.ret[i][1] = r
  THEN CHOOSE i \in 1..Len(last.ret) : last.ret[i][1] = r
  ELSE 0
RowCosine(r) == Cosine(GetChaosVectorByIdx(store, r), last.args[2])

\* C20 (as stated): after insert_node of a hot node whose chaos fingerprint is
\* within 8 bits of the query fingerprint, search_hybrid with top_k >= 1 and
\* l1_candidates >= 1 returns a list in which such a hot node comes ahead of
\* every cold node whose fingerprint is 64 bits or more from the query.
C20_HotNodeRanksFirst ==
  (last.op = "search_hybrid" /\ NearHotRows # {})
    => \E h \in NearHotRows :
         /\ PlaceOf(h) > 0
         /\ \A c \in FarColdRows : PlaceOf(c) = 0 \/ PlaceOf(h) < PlaceOf(c)

\* C20 (amended): search_hybrid returns nothing for a query vector of zeros;
\* otherwise every cold node at 64 bits or more that it returns comes after
\* each hot node within 8 bits whose stored vector has a greater cosine
\* similarity with the query vector than that of the cold node.
C20_HotNodeAheadWhenCosineHigher ==
  last.op = "search_hybrid"
    => /\ RowCosine(0).query_sq = 0 => last.ret = <<>>
       /\ \A h \in NearHotRows, c \in FarColdRows :
            (PlaceOf(c) > 0 /\ ScoreAbove(RowCosine(h), RowCosine(c)))
              => (PlaceOf(h) > 0 /\ PlaceOf(h) < PlaceOf(c))

\* A hybrid search that returned a near hot node first and, after it, a far
\* cold node of lower cosine similarity.
C20_Witness ==
  /\ last.op = "search_hybrid"
  /\ \E h \in NearHotRows, c \in FarColdRows :
       /\ PlaceOf(h) = 1
       /\ PlaceOf(c) > 1
       /\ ScoreAbove(RowCosine(h), RowCosine(c))

\* The Event ids in ascending (timestamp, id) order.
BackboneOrder == SortedEvents(nodes, {id \in DOMAIN nodes : nodes[id].node_type = Event})

\* C21: after every build_temporal_backbone call the prev_event / next_event
\* pointers of the Event nodes form one doubly-linked list in ascending
\* (timestamp, id) order: the first event has no prev_event, the last has no
\* next_event, and each event in between points at its two neighbours.
C21_BackboneIsDoublyLinkedList ==
  last.op = "build_temporal_backbone"
    => \A i \in 1..Len(BackboneOrder) :
         /\ nodes[BackboneOrder[i]].prev_event =
              IF i > 1 THEN Some(BackboneOrder[i - 1]) ELSE None
         /\ nodes[BackboneOrder[i]].next_event =
              IF i < Len(BackboneOrder) THEN Some(BackboneOrder[i + 1]) ELSE None

\* C22: ontology diffusion is one hop per retrieve call: with the query
\* matching only the source of a chain of two ontology edges, the event that
\* is linked only to the feature at the end of the chain is not returned.
C22_OntologyDiffusionIsOneHop ==
  last.op = "retrieve" => 2002 \notin ReturnedIds

\* A retrieve on the chain that returned the event one hop away.
C22_Witness ==
  /\ last.op = "retrieve"
  /\ 2001 \in ReturnedIds
  /\ 2002 \notin ReturnedIds
  /\ \E edge \in {ontology_graph[1001][i] : i \in DOMAIN ontology_graph[1001]} :
       edge.target_node_id = 1002

\* The six hot-buffer arrays describe the same number of nodes.
BufferArraysAgree ==
  LET L == Len(store.buffer_ids)
  IN /\ Len(store.buffer_simhashes) = L
     /\ Len(store.buffer_texts) = L
     /\ Len(store.buffer_node_types) = L
     /\ Len(store.buffer_chaos_fingerprints) = L
     /\ Len(store.buffer_chaos_vectors) = VectorWords * L

\* C23: insert_node is observed atomically: in every state the six hot-buffer
\* arrays describe the same number of nodes (also after a vector of the wrong
\* length), and the buffer gets shorter only by a persist that returns Ok.
C23_InsertNodeAtomic ==
  /\ []BufferArraysAgree
  /\ [][Len(store'.buffer_ids) < Len(store.buffer_ids)
          => (last'.op = "persist" /\ last'.ret = "Ok")]_vars

\* C28: when persist returns an error, node_count() and the id, fingerprint
\* and text read at every index are what they were before the call.
C28_FailedPersistKeepsView ==
  [][(last'.op = "persist" /\ last'.ret = "Err") =>
       /\ NodeCount(store') = NodeCount(store)
       /\ \A idx \in 0..(NodeCount(store) - 1) :
            /\ GetId(store', idx) = GetId(store, idx)
            /\ GetSimhash(store', idx) = GetSimhash(store, idx)
            /\ GetNodeTextByIdx(store', idx) = GetNodeTextByIdx(store, idx)
  ]_vars

\* How many times id is listed in the bucket of key.
TimesListed(index, key, id) ==
  IF key \in DOMAIN index
  THEN Cardinality({i \in DOMAIN index[key] : index[key][i] = id})
  ELSE 0

\* The ids listed in some bucket of an index.
BucketIds(index) == UNION {{index[k][i] : i \in DOMAIN index[k]} : k \in DOMAIN index}

\* C24: in every reachable state an event id is listed in an affective bucket
\* exactly once for each emotion bit of the event's current fingerprint and
\* in no other bucket, and at most once in the temporal index.
C24_IndexListsEventOnce ==
  \A id \in DOMAIN nodes \cup BucketIds(affective_index) \cup BucketIds(temporal_index) :
    /\ \A i \in 0..7 :
         TimesListed(affective_index, 2 ^ i, id) =
           IF /\ id \in DOMAIN nodes
              /\ nodes[id].node_type = Event
              /\ BitSet(nodes[id].fingerprint.affective, i)
           THEN 1 ELSE 0
    /\ \A k \in DOMAIN temporal_index : TimesListed(temporal_index, k, id) <= 1
    /\ Cardinality({k \in DOMAIN temporal_index : TimesListed(temporal_index, k, id) > 0}) <= 1

\* C25 (as stated): the number of edges of the ontology graph and of the memory
\* graph decreases only during apply_arbitration.
C25_OnlyArbitrationReducesEdges ==
  [][(\/ EdgeCount(ontology_graph') < EdgeCount(ontology_graph)
      \/ EdgeCount(graph') < EdgeCount(graph))
       => last'.op = "apply_arbitration"]_vars

\* C25 (amended): the number of edges of the ontology graph decreases only
\* during apply_arbitration and apply_global_decay_and_pruning, and then by the
\* count the latter returns; the number of edges of the memory graph never
\* decreases.
C25_ArbitrationAndPruningReduceEdges ==
  [][/\ EdgeCount(graph') >= EdgeCount(graph)
     /\ EdgeCount(ontology_graph') < EdgeCount(ontology_graph)
          => \/ last'.op = "apply_arbitration"
             \/ /\ last'.op = "apply_global_decay_and_pruning"
                /\ last'.ret = EdgeCount(ontology_graph) - EdgeCount(ontology_graph')
    ]_vars

\* A pruning that removed an edge while others remain.
C25_Witness ==
  /\ last.op = "apply_global_decay_and_pruning"
  /\ last.ret > 0
  /\ EdgeCount(ontology_graph) > 0


\* C26: retrieve is deterministic.  The list a retrieve call returned is the
\* only list that call can return on that engine: the energies of ontology
\* diffusion, and so the ids, scores and order of the result, do not depend on
\* the order in which the seeds are visited, also when one target receives an
\* inhibition and a representation or equality contribution from two seeds.
C26_RetrieveIsDeterministic ==
  last.op = "retrieve"
    => RetrieveOutcomes(Self, last.args[1], last.args[2], last.args[3]) = {last.ret}


\* C27: after any sequence of maintain_ontology and execute_maintenance calls,
\* with any source and target words, every key of the ontology graph and every
\* target of an ontology edge is the id of a Feature node of the node table;
\* no edge has the stopword sentinel -1 as its source or its target.
C27_OntologyEdgesJoinFeatures ==
  \A k \in DOMAIN ontology_graph :
    /\ k # StopId
    /\ k \in DOMAIN nodes
    /\ nodes[k].node_type = Feature
    /\ \A i \in 1..Len(ontology_graph[k]) :
         LET t == ontology_graph[k][i].target_node_id
         IN t # StopId /\ t \in DOMAIN nodes /\ nodes[t].node_type = Feature


\* C29: scan_simd_filtered(query_fp, Some(kind)) returns the index of a node,
\* on disk or in the hot buffer, whose node_type is kind; when the store has
\* no node of that kind the index it returns is not that of a node of another
\* kind, nor an index past the last node.
NodeTypeAt(s, idx) ==
  IF idx < s.header.node_count THEN DiskNodeType(s, idx)
  ELSE s.buffer_node_types[idx - s.header.node_count + 1]

C29_FilteredScanReturnsKind ==
  (pc = "idle" /\ last.op = "scan_simd_filtered")
    => /\ last.ret.max_idx < NodeCount(store)
       /\ NodeTypeAt(store, last.ret.max_idx) = last.args[2][1]


\* C30: in every reachable state each vocabulary entry keyword -> id refers to
\* a node that exists, is a Feature and has the keyword as its content, also
\* after add_feature or add_event was called with an id already in use.
C30_VocabularyNamesFeature ==
  \A keyword \in DOMAIN keyword_to_node :
    LET id == keyword_to_node[keyword]
    IN /\ id \in DOMAIN nodes
       /\ nodes[id].node_type = Feature
       /\ nodes[id].content = keyword
====
